---- MODULE Spec2Model ----
(***************************************************************************)
(* Model of the School Profile / School Performance sheet servers.         *)
(*                                                                         *)
(*   Spec      the snapshot variant (src/server.js, lines 414-918):        *)
(*             in-memory SNAPSHOT, manual refresh, snapshot file on disk;  *)
(*             the startup callback and MaxReq requests of any route.      *)
(*   SpecReads the snapshot variant under MaxReads concurrent requests     *)
(*             of GET /api/profile and GET /api/performance.               *)
(*   SpecTTL   the TTL-cache variant (src/unnamed/part_001): NodeCache     *)
(*             with stdTTL 60 in front of the same accessors; MaxReads     *)
(*             requests, one after the other.                              *)
(*   SpecSheets the generic sheet server (src/server.js, lines 1-193):     *)
(*             GET /api/sheets/:sheetName and POST /api/cache/clear;       *)
(*             MaxCalls concurrent requests.                               *)
(*   SpecJoin  GET /api/schools of the snapshot variant over every pair    *)
(*             of sheets of at most MaxRows rows with ids from JoinIds.    *)
(*   SpecMerge GET /api/schools over sheets whose header rows and key      *)
(*             cells vary (blanks, numbers, empty cells, colliding names). *)
(*   SpecTables GET /api/profile, /api/performance and                     *)
(*             /api/performance/key on a miss, over sheets of every shape  *)
(*             of header rows and data rows, narrow and wide.              *)
(*   SpecStatus the snapshot variant under MaxStatusReq requests of GET     *)
(*             /health, /stats, /admin/status, /api/profile,               *)
(*             /api/schools?onlyMatched=false, POST /admin/save and        *)
(*             /admin/load, after the startup callback.                    *)
(*                                                                         *)
(* A JavaScript string is a sequence of one-character strings; a cell of   *)
(* a sheet is [num, s]: s is String(cell), num tells a number from a       *)
(* string.  An object is a function from its keys to cells.                *)
(***************************************************************************)
EXTENDS Integers, Sequences, FiniteSets, TLC

(* ------------------------------------------------------------------ *)
(* Bounds                                                                *)
(* ------------------------------------------------------------------ *)
\* HTTP requests one behaviour of the snapshot variant handles, beside the
\* startup callback (each request is handled once)
MaxReq == 1
\* HTTP requests one behaviour of the read-only and TTL specifications handles
MaxReads == 2
\* HTTP requests one behaviour of the generic sheet server handles
MaxCalls == 3
\* data rows of each of the two sheets that the join specification joins
MaxRows == 3

(* ------------------------------------------------------------------ *)
(* Strings and cells                                                     *)
(* ------------------------------------------------------------------ *)
Str(c) == [num |-> FALSE, s |-> c]
Num(c) == [num |-> TRUE, s |-> c]
EmptyStr == Str(<< >>)

\* null / undefined, and a value that is neither
NULL    == [null |-> TRUE]
Val(x)  == [v |-> x]
\* a file that does not exist, a file whose text is not JSON
ABSENT  == [absent |-> TRUE]
CORRUPT == [corrupt |-> TRUE]

UpperChars == <<"A","B","C","D","E","F","G","H","I","J","K","L","M",
                "N","O","P","Q","R","S","T","U","V","W","X","Y","Z">>
LowerChars == <<"a","b","c","d","e","f","g","h","i","j","k","l","m",
                "n","o","p","q","r","s","t","u","v","w","x","y","z">>

\* String.prototype.toLowerCase
toLowerCase(s) ==
  [i \in 1..Len(s) |->
     IF \E k \in 1..26 : UpperChars[k] = s[i]
     THEN LowerChars[CHOOSE k \in 1..26 : UpperChars[k] = s[i]]
     ELSE s[i]]

\* String.prototype.toUpperCase
toUpperCase(s) ==
  [i \in 1..Len(s) |->
     IF \E k \in 1..26 : LowerChars[k] = s[i]
     THEN UpperChars[CHOOSE k \in 1..26 : LowerChars[k] = s[i]]
     ELSE s[i]]

\* the least / greatest element of a set of integers, dflt when it is empty
MinOr(S, dflt) == IF S = {} THEN dflt ELSE CHOOSE i \in S : \A j \in S : i <= j
MaxOr(S, dflt) == IF S = {} THEN dflt ELSE CHOOSE i \in S : \A j \in S : i >= j

\* the positions of s that hold no white space
NonSpace(s) == {i \in 1..Len(s) : s[i] # " "}

\* String.prototype.trim: white space removed from both ends
trim(s) == SubSeq(s, MinOr(NonSpace(s), 1), MaxOr(NonSpace(s), 0))

\* String.prototype.includes
includes(s, sub) ==
  \E i \in 0..(Len(s) - Len(sub)) : SubSeq(s, i + 1, i + Len(sub)) = sub

Digits == <<"0","1","2","3","4","5","6","7","8","9">>

RECURSIVE NatToStr(_)
\* String(n) of a non-negative integer
NatToStr(n) ==
  IF n < 10 THEN <<Digits[n + 1]>>
  ELSE Append(NatToStr(n \div 10), Digits[(n % 10) + 1])

\* JavaScript truthiness of a cell: "" and the number 0 are falsy
Truthy(c) == IF c.num THEN c.s # <<"0">> ELSE c.s # << >>

\* `col_${i}` with the 0-based index i
ColLabel(i) == <<"c","o","l","_">> \o NatToStr(i)

SchoolIdKey == <<"S","c","h","o","o","l"," ","I","D">>

(* ------------------------------------------------------------------ *)
(* Pure helpers (the same text in all variants)                          *)
(* ------------------------------------------------------------------ *)
Max2(a, b) == IF a >= b THEN a ELSE b

\* the 0-based element a[i] of a JavaScript array, or dflt when undefined
At(a, i, dflt) == IF i >= 0 /\ i < Len(a) THEN a[i + 1] ELSE dflt

\* the test isSchoolIdHeader makes on s = String(h || "").trim().toLowerCase()
isSchoolIdText(s) ==
  \/ s = <<"s","c","h","o","o","l"," ","i","d">>
  \/ s = <<"s","c","h","o","o","l","i","d">>
  \/ (includes(s, <<"s","c","h","o","o","l">>) /\ includes(s, <<"i","d">>))

\* isSchoolIdHeader(h): h is a cell
isSchoolIdHeader(h) ==
  isSchoolIdText(toLowerCase(trim(IF Truthy(h) THEN h.s ELSE << >>)))

\* the 0-based index of the last match, or -1
findSchoolIdIndexOfLast(headers) ==
  MaxOr({i \in 0..(Len(headers) - 1) : isSchoolIdHeader(headers[i + 1])}, -1)

\* findSchoolIdIndex(headers): 0-based index of the first match, or -1
findSchoolIdIndex(headers) ==
  MinOr({i \in 0..(Len(headers) - 1) : isSchoolIdHeader(headers[i + 1])}, -1)

\* the property name under which rowsToObjects files column i
KeyOf(headerRow, i) ==
  IF Truthy(headerRow[i + 1]) THEN headerRow[i + 1].s ELSE ColLabel(i)

\* one object in which the first column with a key keeps it
RowToObjectOfFirst(r, headerRow) ==
  LET n    == Len(headerRow)
      keys == {KeyOf(headerRow, i) : i \in 0..(n - 1)}
      first(k) == CHOOSE i \in 0..(n - 1) :
                    /\ KeyOf(headerRow, i) = k
                    /\ \A j \in 0..(n - 1) : KeyOf(headerRow, j) = k => j >= i
  IN  [k \in keys |-> At(r, first(k), EmptyStr)]

\* one object of rowsToObjects: a later column with the same key overwrites
RowToObject(r, headerRow) ==
  LET n    == Len(headerRow)
      keys == {KeyOf(headerRow, i) : i \in 0..(n - 1)}
      last(k) == CHOOSE i \in 0..(n - 1) :
                   /\ KeyOf(headerRow, i) = k
                   /\ \A j \in 0..(n - 1) : KeyOf(headerRow, j) = k => j <= i
  IN  [k \in keys |-> At(r, last(k), EmptyStr)]

\* rowsToObjects(rows, headerRow)
rowsToObjects(rows, headerRow) ==
  [n \in 1..Len(rows) |-> RowToObject(rows[n], headerRow)]

\* buildPerfFlatHeaders(h1, h2, h3)
buildPerfFlatHeaders(h1, h2, h3) ==
  LET width == Max2(Len(h1), Max2(Len(h2), Len(h3)))
      sep   == <<" ","|"," ">>
      label(i) == trim(At(h1, i, EmptyStr).s \o sep \o At(h2, i, EmptyStr).s
                       \o sep \o At(h3, i, EmptyStr).s)
  IN  [n \in 1..width |->
         Str(IF Len(label(n - 1)) > 0 THEN label(n - 1) ELSE ColLabel(n - 1))]

\* A JavaScript Map: a sequence of [k, v] in insertion order, keys unique.
MapHas(m, k) == \E n \in 1..Len(m) : m[n].k = k
MapGet(m, k) == m[CHOOSE n \in 1..Len(m) : m[n].k = k].v
\* a set that keeps the value a key already has
MapSetKeepingFirst(m, k, v) ==
  IF MapHas(m, k) THEN m ELSE Append(m, [k |-> k, v |-> v])
MapSet(m, k, v) ==
  IF MapHas(m, k)
  THEN [n \in 1..Len(m) |-> IF m[n].k = k THEN [k |-> k, v |-> v] ELSE m[n]]
  ELSE Append(m, [k |-> k, v |-> v])
MapKeys(m) == [n \in 1..Len(m) |-> m[n].k]

RECURSIVE KeyedFromTrimmed(_, _, _)
\* the loop with map.set(String(id).trim(), r)
KeyedFromTrimmed(objs, keyName, n) ==
  IF n = 0 THEN << >>
  ELSE LET m  == KeyedFromTrimmed(objs, keyName, n - 1)
           r  == objs[n]
       IN  IF keyName \in DOMAIN r /\ r[keyName] # EmptyStr
           THEN MapSet(m, trim(r[keyName].s), r)
           ELSE m

RECURSIVE KeyedFrom(_, _, _)
\* the loop of toKeyedBySchoolId over objs[n..]
KeyedFrom(objs, keyName, n) ==
  IF n = 0 THEN << >>
  ELSE LET m  == KeyedFrom(objs, keyName, n - 1)
           r  == objs[n]
       IN  IF keyName \in DOMAIN r /\ r[keyName] # EmptyStr
           THEN MapSet(m, r[keyName].s, r)
           ELSE m

\* toKeyedBySchoolId(objs, headerRow)
toKeyedBySchoolId(objs, headerRow) ==
  IF findSchoolIdIndex(headerRow) < 0 THEN << >>
  ELSE KeyedFrom(objs, headerRow[findSchoolIdIndex(headerRow) + 1].s, Len(objs))

\* { ...q, ...p }: the profile wins
SpreadProfileWins(p, q) ==
  [k \in (DOMAIN p) \cup (DOMAIN q) |-> IF k \in DOMAIN p THEN p[k] ELSE q[k]]

\* { ...p, ...q }
Spread(p, q) ==
  [k \in (DOMAIN p) \cup (DOMAIN q) |-> IF k \in DOMAIN q THEN q[k] ELSE p[k]]

EmptyObj == [k \in {} |-> EmptyStr]

\* m.get(id) || {}
GetOrEmpty(m, id) == IF MapHas(m, id) THEN MapGet(m, id) ELSE EmptyObj

\* headers.find(isSchoolIdHeader): the header (a string), NULL when undefined
findSchoolIdHeader(headers) ==
  IF findSchoolIdIndex(headers) < 0 THEN NULL
  ELSE Val(headers[findSchoolIdIndex(headers) + 1].s)

\* the value the join gives row["School ID"] when the spread left it falsy
SchoolIdFill(id, p, q, hp, hq) ==
  IF hp # NULL /\ hp.v \in DOMAIN p THEN p[hp.v]
  ELSE IF hq # NULL /\ hq.v \in DOMAIN q THEN q[hq.v]
  ELSE Str(id)

\* if (!("School ID" in row)) row["School ID"] = fill: an empty one is kept
WithSchoolIdWhenMissing(row, fill) ==
  IF SchoolIdKey \in DOMAIN row THEN row
  ELSE [k \in (DOMAIN row) \cup {SchoolIdKey} |->
          IF k = SchoolIdKey THEN fill ELSE row[k]]

\* if (!row["School ID"]) row["School ID"] = fill
WithSchoolId(row, fill) ==
  IF SchoolIdKey \in DOMAIN row /\ Truthy(row[SchoolIdKey])
  THEN row
  ELSE [k \in (DOMAIN row) \cup {SchoolIdKey} |->
          IF k = SchoolIdKey THEN fill ELSE row[k]]

\* one merged row of a join: the spread and the "School ID" fallback
MergeRow(id, p, q, hp, hq) ==
  WithSchoolId(Spread(p, q), SchoolIdFill(id, p, q, hp, hq))

\* the loop of a join over ids
MergeAll(ids, profile, perf, pMap, qMap) ==
  [n \in 1..Len(ids) |->
     MergeRow(ids[n], GetOrEmpty(pMap, ids[n]), GetOrEmpty(qMap, ids[n]),
              findSchoolIdHeader(profile.headers), findSchoolIdHeader(perf.headers))]

\* { count: merged.length, data: merged }
Counted(merged) == [count |-> Len(merged), data |-> merged]

\* the ids both maps have, in the order of qMap
MatchedIdsInPerfOrder(pMap, qMap) ==
  SelectSeq(MapKeys(qMap), LAMBDA id : MapHas(pMap, id))

\* [...pMap.keys()].filter((id) => qMap.has(id))
MatchedIds(pMap, qMap) == SelectSeq(MapKeys(pMap), LAMBDA id : MapHas(qMap, id))

\* the inner join over the two keyed maps
InnerJoinKeyed(profile, perf, pMap, qMap) ==
  Counted(MergeAll(MatchedIds(pMap, qMap), profile, perf, pMap, qMap))

\* the inner join of getJoinedFull and refreshAll: ids of pMap that qMap has
InnerJoin(profile, perf) ==
  InnerJoinKeyed(profile, perf,
                 toKeyedBySchoolId(profile.data, profile.headers),
                 toKeyedBySchoolId(perf.data, perf.headers))

\* the keys of a alone: a join that leaves out the keys only b has
UnionKeysOfProfile(a, b) == a

RECURSIVE UnionKeys(_, _)
\* new Set([...a, ...b]) for two key sequences, in insertion order
UnionKeys(a, b) ==
  IF b = << >> THEN a
  ELSE IF \E n \in 1..Len(a) : a[n] = Head(b) THEN UnionKeys(a, Tail(b))
  ELSE UnionKeys(Append(a, Head(b)), Tail(b))

\* the outer join over the two keyed maps
OuterJoinKeyed(profile, perf, pMap, qMap) ==
  Counted(MergeAll(UnionKeys(MapKeys(pMap), MapKeys(qMap)), profile, perf, pMap, qMap))

\* the outer join of GET /api/schools?onlyMatched=false
OuterJoin(profile, perf) ==
  OuterJoinKeyed(profile, perf,
                 toKeyedBySchoolId(profile.data, profile.headers),
                 toKeyedBySchoolId(perf.data, perf.headers))

(* ------------------------------------------------------------------ *)
(* a1ToIndex and the key-column subset                                   *)
(* ------------------------------------------------------------------ *)
\* ch.charCodeAt(0) - 64 for a letter A..Z
LetterCode(ch) == CHOOSE k \in 1..26 : UpperChars[k] = ch

RECURSIVE A1Acc(_, _)
A1Acc(s, n) == IF s = << >> THEN n ELSE A1Acc(Tail(s), n * 26 + LetterCode(Head(s)))

\* the 1-based index of a column
a1ToIndexFromOne(colLabel) == A1Acc(toUpperCase(colLabel), 0)

\* a1ToIndex(colLabel)
a1ToIndex(colLabel) == A1Acc(toUpperCase(colLabel), 0) - 1

AB_IDX == a1ToIndex(<<"A","B">>)
AU_IDX == a1ToIndex(<<"A","U">>)

Min2(a, b) == IF a <= b THEN a ELSE b

\* the indexes from..to of the loop `for (let i = from; i <= to; i++)`
IndexRange(from, to) == [n \in 1..Max2(0, to - from + 1) |-> from + n - 1]

\* idxs of filterToKeyCols: the School ID column first, then AB..AU
KeyColIdxs(schoolIdx, width) ==
  IF schoolIdx >= 0
  THEN <<schoolIdx>> \o IndexRange(AB_IDX, Min2(AU_IDX, width - 1))
  ELSE IndexRange(AB_IDX, Min2(AU_IDX, width - 1))

\* the columns idxs of the headers and of every row
PickCols(rows, headers, idxs) ==
  [headers |-> [n \in 1..Len(idxs) |-> headers[idxs[n] + 1]],
   rows    |-> [m \in 1..Len(rows) |->
                  [n \in 1..Len(idxs) |-> At(rows[m], idxs[n], EmptyStr)]]]

\* filterToKeyCols(rows, headers)
filterToKeyCols(rows, headers) ==
  PickCols(rows, headers, KeyColIdxs(findSchoolIdIndex(headers), Len(headers)))

(* ------------------------------------------------------------------ *)
(* The spreadsheet (upstream): three contents the sheet can have         *)
(* ------------------------------------------------------------------ *)
\* 0: the sheet is empty, 1: it is filled in, 2: it has been edited
Contents == {0, 1, 2}

HdrSchoolId == Str(SchoolIdKey)
HdrName     == Str(<<"N","a","m","e">>)

\* values of "School Profile!A:AI" when the sheet has content c
ProfileValues(c) ==
  CASE c = 1 -> << <<HdrSchoolId, HdrName>>,
                   <<Str(<<"1">>), Str(<<"A">>)>>,
                   <<Str(<<"2">>), Str(<<"B">>)>> >>
    [] c = 2 -> << <<HdrSchoolId, HdrName>>,
                   <<Str(<<"1">>), Str(<<"A">>)>>,
                   <<Num(<<"3">>), Str(<<"C">>)>> >>
    [] OTHER -> << >>

\* values of "School Performance!1:3"
PerfHeaderValues(c) ==
  CASE c \in {1, 2} -> << <<EmptyStr, Str(<<"R","e","s">>)>>,
                          <<HdrSchoolId, Str(<<"S","c","o","r","e">>)>>,
                          <<EmptyStr, Num(<<"2","0","2","1">>)>> >>
    [] OTHER -> << >>

\* values of "School Performance!4:100000"
PerfDataValues(c) ==
  CASE c = 1 -> << <<Str(<<"2">>), Str(<<"9">>)>>,
                   <<Str(<<"3">>), Str(<<"8">>)>> >>
    [] c = 2 -> << <<Str(<<"3">>), Str(<<"7">>)>> >>
    [] OTHER -> << >>

(* ------------------------------------------------------------------ *)
(* State                                                                 *)
(* ------------------------------------------------------------------ *)
VARIABLES
  config,    \* "service" | "apikey" | "none": what the environment configures
  sheet,     \* the content the spreadsheet has now
  now,       \* the clock, in ticks
  SNAPSHOT,  \* the in-memory snapshot (snapshot variant)
  stats,     \* the counters
  file,      \* SNAPSHOT_FILE on disk
  tmp,       \* SNAPSHOT_FILE + ".tmp"
  cache,     \* the NodeCache (TTL variants): key -> [v, t]
  req        \* the requests: req[0] is the startup callback

vars == <<config, sheet, now, SNAPSHOT, stats, file, tmp, cache, req>>

Procs == DOMAIN req
Reqs  == Procs \ {0}

\* a request not yet received (arg is a history field: what the request
\* carried in its query and headers)
NoReq ==
  [kind |-> "none", pc |-> "idle", gp |-> "off", gq |-> "off", rf |-> "off",
   p |-> NULL, q |-> NULL, vals |-> << >>, hdr |-> << >>, resp |-> NULL,
   meta |-> NULL, loaded |-> FALSE, calls |-> 0, arg |-> NULL]

\* const stats = {...}
stats0 ==
  [totalRequests |-> 0, cacheHits |-> 0, cacheMisses |-> 0, apiCalls |-> 0,
   errors |-> 0, lastApiCall |-> NULL]

\* const SNAPSHOT = {...}
SNAPSHOT0 ==
  [profile |-> NULL, performance |-> NULL, joinedMatched |-> NULL,
   lastUpdated |-> NULL, lastReason |-> NULL]

(* ------------------------------------------------------------------ *)
(* Datasets.  The field `by` is a history field: the request that        *)
(* fetched the dataset (0: the startup callback, -1: an earlier run of   *)
(* the server).  The program does not have it.                          *)
(* ------------------------------------------------------------------ *)
\* getProfile: { headers: header, rows: dataRows, data }
ProfileDataset(values, by) ==
  [headers |-> Head(values), rows |-> Tail(values),
   data |-> rowsToObjects(Tail(values), Head(values)), by |-> by]

\* getProfile on an empty range: { headers: [], rows: [], data: [] }
EmptyDataset(by) ==
  [headers |-> << >>, rows |-> << >>, data |-> << >>, by |-> by]

\* refreshAll: values[0] || [], values.slice(1) when there is more than a row
RefreshProfileDataset(values, by) ==
  LET header   == IF Len(values) > 0 THEN Head(values) ELSE << >>
      dataRows == IF Len(values) > 1 THEN Tail(values) ELSE << >>
  IN  [headers |-> header, rows |-> dataRows,
       data |-> rowsToObjects(dataRows, header), by |-> by]

\* getPerformanceFull and refreshAll: the flat headers over the data rows
PerfDataset(headerRows, dataRows, by) ==
  LET flat == buildPerfFlatHeaders(At(headerRows, 0, << >>),
                                   At(headerRows, 1, << >>),
                                   At(headerRows, 2, << >>))
  IN  [headers |-> flat, rows |-> dataRows,
       data |-> rowsToObjects(dataRows, flat), by |-> by]

(* ------------------------------------------------------------------ *)
(* Snapshot variant: the code between two awaits, as a function of       *)
(*   M = [S: SNAPSHOT, st: stats, f: file, t: tmp, id: request id,       *)
(*        rq: the request's own state]                                   *)
(* A promise that is already settled resumes its awaiter in the same     *)
(* turn of the event loop: only an await of the network yields.          *)
(* ------------------------------------------------------------------ *)
\* getSheetValues up to its await: the counters are set before the call
\* (rq.calls is a history field: the calls this request has made)
getSheetValues(M) ==
  [M EXCEPT !.st.apiCalls = @ + 1, !.st.lastApiCall = Val(now),
            !.rq.calls = @ + 1]

\* `await getSheetsClient()` and the call of getSheetValues after it, in the
\* sub-task `task` of the request: the configuration is missing (it throws),
\* auth.authorize() is awaited, or (API key) the first range is asked for
getSheetsClient(M, task, first) ==
  CASE config = "none"    -> [M EXCEPT !.rq[task] = "err"]
    [] config = "service" -> [M EXCEPT !.rq[task] = "auth"]
    [] OTHER -> [getSheetValues(M) EXCEPT !.rq[task] = first]

\* a getProfile that never looks at SNAPSHOT.profile
getProfileNeverHitting(M) ==
  getSheetsClient([M EXCEPT !.st.totalRequests = @ + 1, !.st.cacheMisses = @ + 1],
                  "gp", "fetch")

\* getProfile up to its first await of the network
getProfile(M) ==
  IF M.S.profile # NULL
  THEN [M EXCEPT !.st.totalRequests = @ + 1, !.st.cacheHits = @ + 1,
                 !.rq.gp = "ok", !.rq.p = M.S.profile]
  ELSE getSheetsClient(
         [M EXCEPT !.st.totalRequests = @ + 1, !.st.cacheMisses = @ + 1],
         "gp", "fetch")

\* getProfile after auth.authorize() of getSheetsClient
getProfileAuthorized(M, ok) ==
  IF ok THEN [getSheetValues(M) EXCEPT !.rq.gp = "fetch"]
  ELSE [M EXCEPT !.rq.gp = "err"]

\* getProfile after the values of PROFILE_RANGE arrived (or the call failed)
getProfileFetched(M, ok, values) ==
  IF ~ok THEN [M EXCEPT !.rq.gp = "err"]
  ELSE IF Len(values) = 0
  THEN [M EXCEPT !.rq.gp = "ok", !.rq.p = EmptyDataset(M.id)]
  ELSE LET result == ProfileDataset(values, M.id)
       IN  [M EXCEPT !.rq.gp = "ok", !.rq.p = result, !.S.profile = result]

\* getPerformanceFull up to its first await of the network
getPerformanceFull(M) ==
  IF M.S.performance # NULL
  THEN [M EXCEPT !.st.totalRequests = @ + 1, !.st.cacheHits = @ + 1,
                 !.rq.gq = "ok", !.rq.q = M.S.performance]
  ELSE getSheetsClient(
         [M EXCEPT !.st.totalRequests = @ + 1, !.st.cacheMisses = @ + 1],
         "gq", "fetchH")

getPerformanceAuthorized(M, ok) ==
  IF ok THEN [getSheetValues(M) EXCEPT !.rq.gq = "fetchH"]
  ELSE [M EXCEPT !.rq.gq = "err"]

\* getPerformanceFull after PERF_HEADERS_RANGE arrived: asks for the data
getPerformanceHeaders(M, ok, values) ==
  IF ~ok THEN [M EXCEPT !.rq.gq = "err"]
  ELSE [getSheetValues(M) EXCEPT !.rq.gq = "fetchD", !.rq.hdr = values]

\* getPerformanceFull after PERF_DATA_RANGE arrived
getPerformanceData(M, ok, values) ==
  IF ~ok THEN [M EXCEPT !.rq.gq = "err", !.rq.hdr = << >>]
  ELSE LET result == PerfDataset(M.rq.hdr, values, M.id)
       IN  [M EXCEPT !.rq.gq = "ok", !.rq.q = result, !.rq.hdr = << >>,
                     !.S.performance = result]

\* res.json(body)
Respond(M, body) ==
  [M EXCEPT !.rq.pc = "done", !.rq.resp = [code |-> 200, body |-> body]]

\* the test of /admin/refresh on REFRESH_TOKEN ("" when it is not set),
\* req.query.token and req.headers["x-refresh-token"] (NULL when undefined),
\* looking at the query only
refreshTokenRejectedByQuery(REFRESH_TOKEN, token, header) ==
  REFRESH_TOKEN # "" /\ token # Val(REFRESH_TOKEN)

\* REFRESH_TOKEN && (req.query.token !== REFRESH_TOKEN &&
\*                   req.headers["x-refresh-token"] !== REFRESH_TOKEN)
refreshTokenRejected(REFRESH_TOKEN, token, header) ==
  /\ REFRESH_TOKEN # ""
  /\ token # Val(REFRESH_TOKEN)
  /\ header # Val(REFRESH_TOKEN)

\* (q ?? "true").toString().toLowerCase() !== "false", without toLowerCase
onlyMatchedCaseSensitive(q) ==
  (IF q = NULL THEN <<"t","r","u","e">> ELSE q.v) # <<"f","a","l","s","e">>

\* onlyMatched of GET /api/schools: q is req.query.onlyMatched
onlyMatched(q) ==
  toLowerCase(IF q = NULL THEN <<"t","r","u","e">> ELSE q.v) # <<"f","a","l","s","e">>

\* res.status(401).json({ error: "unauthorized" })
Unauthorized(M) ==
  [M EXCEPT !.rq.pc = "done", !.rq.resp = [code |-> 401, body |-> NULL]]

\* catch (err) { increment("errors"); res.status(500).json(...) }
Fail500(M) ==
  [M EXCEPT !.st.errors = @ + 1, !.rq.pc = "done",
            !.rq.resp = [code |-> 500, body |-> NULL]]

\* getJoinedFull: SNAPSHOT.joinedMatched = result; return result
getJoinedFullStore(M, result) ==
  Respond([M EXCEPT !.S.joinedMatched = result], result)

\* getJoinedFull once Promise.all settled: a rejection of either rejects it
getJoinedFullSettled(M) ==
  IF M.rq.gp = "err" \/ M.rq.gq = "err" THEN Fail500(M)
  ELSE IF M.rq.gp = "ok" /\ M.rq.gq = "ok"
  THEN getJoinedFullStore(M, InnerJoin(M.rq.p, M.rq.q))
  ELSE M

\* getJoinedFull up to its await of Promise.all
getJoinedFull(M) ==
  IF M.S.joinedMatched # NULL
  THEN Respond([M EXCEPT !.st.totalRequests = @ + 1, !.st.cacheHits = @ + 1],
               M.S.joinedMatched)
  ELSE getJoinedFullSettled(
         getPerformanceFull(getProfile(
           [M EXCEPT !.st.totalRequests = @ + 1, !.st.cacheMisses = @ + 1,
                     !.rq.pc = "wait"])))

\* GET /api/schools?onlyMatched=false after `await getPerformanceFull()`
OuterAfterPerformance(M) ==
  CASE M.rq.gq = "err" -> Fail500(M)
    [] M.rq.gq = "ok"  -> Respond(M, OuterJoin(M.rq.p, M.rq.q))
    [] OTHER -> M

\* GET /api/schools?onlyMatched=false after `await getProfile()`
OuterAfterProfile(M) ==
  CASE M.rq.gp = "err" -> Fail500(M)
    [] M.rq.gp = "ok"  ->
         OuterAfterPerformance(getPerformanceFull([M EXCEPT !.rq.pc = "waitQ"]))
    [] OTHER -> M

\* { headers, rows, data: rowsToObjects(rows, headers) } of GET /api/performance/key
KeyColsBody(f) ==
  [headers |-> f.headers, rows |-> f.rows,
   data |-> rowsToObjects(f.rows, f.headers)]

\* GET /api/performance/key after `await getPerformanceFull()`
PerformanceKeyBody(q) == KeyColsBody(filterToKeyCols(q.rows, q.headers))

\* the route handler of a dataset request resumes after one of its awaits
Resume(M) ==
  CASE M.rq.pc = "done" -> M
    [] M.rq.kind = "profile" ->
         CASE M.rq.gp = "ok"  -> Respond(M, M.rq.p)
           [] M.rq.gp = "err" -> Fail500(M)
           [] OTHER -> M
    [] M.rq.kind = "performance" ->
         CASE M.rq.gq = "ok"  -> Respond(M, M.rq.q)
           [] M.rq.gq = "err" -> Fail500(M)
           [] OTHER -> M
    [] M.rq.kind = "perfkey" ->
         CASE M.rq.gq = "ok"  -> Respond(M, PerformanceKeyBody(M.rq.q))
           [] M.rq.gq = "err" -> Fail500(M)
           [] OTHER -> M
    [] M.rq.kind = "schools" -> getJoinedFullSettled(M)
    [] M.rq.kind = "schoolsOuter" ->
         IF M.rq.pc = "waitP" THEN OuterAfterProfile(M) ELSE OuterAfterPerformance(M)
    [] OTHER -> M

(* ------------------------------------------------------------------ *)
(* Snapshot variant: disk persistence                                    *)
(* ------------------------------------------------------------------ *)
\* a snapshotToSerializable that leaves the joined view out
snapshotToSerializableWithoutJoined(M) ==
  [profile |-> M.S.profile, performance |-> M.S.performance,
   joinedMatched |-> NULL, lastUpdated |-> M.S.lastUpdated,
   lastReason |-> M.S.lastReason,
   stats |-> [apiCalls |-> M.st.apiCalls, totalRequests |-> M.st.totalRequests,
              cacheHits |-> M.st.cacheHits, cacheMisses |-> M.st.cacheMisses,
              lastApiCall |-> M.st.lastApiCall]]

\* snapshotToSerializable()
snapshotToSerializable(M) ==
  [profile |-> M.S.profile, performance |-> M.S.performance,
   joinedMatched |-> M.S.joinedMatched, lastUpdated |-> M.S.lastUpdated,
   lastReason |-> M.S.lastReason,
   stats |-> [apiCalls |-> M.st.apiCalls, totalRequests |-> M.st.totalRequests,
              cacheHits |-> M.st.cacheHits, cacheMisses |-> M.st.cacheMisses,
              lastApiCall |-> M.st.lastApiCall]]

\* The text of a JSON document: each member of the top-level object is the
\* token null or the text of a value.  The Snapshot holds strings, numbers,
\* arrays and plain objects only, which JSON writes and reads back as they
\* are.
JSONencode(x) == IF x = NULL THEN [t |-> "null"] ELSE [t |-> "value", text |-> x]
JSONdecode(e) == IF e.t = "null" THEN NULL ELSE e.text

\* JSON.stringify of a document / JSON.parse of the text of a file
JSONstringify(doc) == [json |-> [k \in DOMAIN doc |-> JSONencode(doc[k])]]
JSONparse(text) == [k \in DOMAIN text.json |-> JSONdecode(text.json[k])]

\* `x || null` for an object or a time stamp x (never falsy unless null)
OrNull(x) == IF x = NULL THEN NULL ELSE x
\* `x || null` for a string x: the empty string is falsy
OrNullText(x) == IF x = NULL THEN NULL ELSE IF x.v = "" THEN NULL ELSE x

\* what the file system does to one saveSnapshotToDisk
DiskOutcomes == {"ok", "writeFailed", "renameFailed"}

\* a saveSnapshotToDisk that writes SNAPSHOT_FILE itself, without the .tmp file
saveSnapshotInPlace(M, disk) ==
  CASE disk = "writeFailed" -> [M EXCEPT !.f = CORRUPT, !.ok = FALSE]
    [] OTHER -> [M EXCEPT !.f = JSONstringify(snapshotToSerializable(M)),
                          !.ok = TRUE]

\* saveSnapshotToDisk(): write the .tmp file, rename it over SNAPSHOT_FILE
saveSnapshotToDisk(M, disk) ==
  LET text == JSONstringify(snapshotToSerializable(M))
  IN  CASE disk = "writeFailed"  -> [M EXCEPT !.t = CORRUPT, !.ok = FALSE]
        [] disk = "renameFailed" -> [M EXCEPT !.t = text, !.ok = FALSE]
        [] OTHER -> [M EXCEPT !.t = ABSENT, !.f = text, !.ok = TRUE]

\* a loadSnapshotFromDisk that empties the Snapshot before it reads the file
loadSnapshotFromDiskResetting(M) ==
  IF M.f = ABSENT \/ M.f = CORRUPT THEN [M EXCEPT !.S = SNAPSHOT0, !.ok = FALSE]
  ELSE [M EXCEPT !.S = [profile |-> JSONparse(M.f).profile,
                        performance |-> JSONparse(M.f).performance,
                        joinedMatched |-> JSONparse(M.f).joinedMatched,
                        lastUpdated |-> JSONparse(M.f).lastUpdated,
                        lastReason |-> JSONparse(M.f).lastReason],
                 !.ok = TRUE]

\* a loadSnapshotFromDisk that restores every saved counter but cacheHits
loadSnapshotFromDiskKeepingHits(M) ==
  IF M.f = ABSENT \/ M.f = CORRUPT THEN [M EXCEPT !.ok = FALSE]
  ELSE [M EXCEPT !.S = [profile |-> OrNull(JSONparse(M.f).profile),
                        performance |-> OrNull(JSONparse(M.f).performance),
                        joinedMatched |-> OrNull(JSONparse(M.f).joinedMatched),
                        lastUpdated |-> OrNull(JSONparse(M.f).lastUpdated),
                        lastReason |-> OrNullText(JSONparse(M.f).lastReason)],
                 !.st = [@ EXCEPT !.apiCalls = JSONparse(M.f).stats.apiCalls,
                                  !.totalRequests = JSONparse(M.f).stats.totalRequests,
                                  !.cacheMisses = JSONparse(M.f).stats.cacheMisses,
                                  !.lastApiCall = JSONparse(M.f).stats.lastApiCall],
                 !.ok = TRUE]

\* loadSnapshotFromDisk(): a missing or unparsable file changes nothing
loadSnapshotFromDisk(M) ==
  IF M.f = ABSENT \/ M.f = CORRUPT THEN [M EXCEPT !.ok = FALSE]
  ELSE LET j == JSONparse(M.f)
       IN  [M EXCEPT !.S = [profile |-> OrNull(j.profile),
                            performance |-> OrNull(j.performance),
                            joinedMatched |-> OrNull(j.joinedMatched),
                            lastUpdated |-> OrNull(j.lastUpdated),
                            lastReason |-> OrNullText(j.lastReason)],
                     !.st = [@ EXCEPT !.apiCalls = j.stats.apiCalls,
                                      !.totalRequests = j.stats.totalRequests,
                                      !.cacheHits = j.stats.cacheHits,
                                      !.cacheMisses = j.stats.cacheMisses,
                                      !.lastApiCall = j.stats.lastApiCall],
                     !.ok = TRUE]

(* ------------------------------------------------------------------ *)
(* Snapshot variant: refreshAll                                          *)
(* ------------------------------------------------------------------ *)
\* the reason the caller passes to refreshAll
ReasonOf(kind) == IF kind = "startup" THEN "startup" ELSE "manual_endpoint"

\* the caller of refreshAll resumes: /admin/refresh answers, startup logs
RefreshCaller(M) ==
  CASE M.rq.rf = "ok" ->
         IF M.rq.kind = "startup" THEN [M EXCEPT !.rq.pc = "done"]
         ELSE Respond(M, M.rq.meta)
    [] M.rq.rf = "err" ->
         IF M.rq.kind = "startup" THEN [M EXCEPT !.rq.pc = "done"]
         ELSE Fail500(M)
    [] OTHER -> M

\* refreshAll up to its first await of the network
refreshAll(M) == getSheetsClient(M, "rf", "fetchP")

refreshAuthorized(M, ok) ==
  IF ok THEN [getSheetValues(M) EXCEPT !.rq.rf = "fetchP"]
  ELSE [M EXCEPT !.rq.rf = "err"]

\* refreshAll storing the profile as soon as it has it
refreshProfileFetchedEarly(M, ok, values) ==
  IF ~ok THEN [M EXCEPT !.rq.rf = "err"]
  ELSE [getSheetValues(M) EXCEPT !.rq.rf = "fetchH", !.rq.vals = values,
                                 !.S.profile = RefreshProfileDataset(values, M.id)]

\* refreshAll after PROFILE_RANGE arrived
refreshProfileFetched(M, ok, values) ==
  IF ~ok THEN [M EXCEPT !.rq.rf = "err"]
  ELSE [getSheetValues(M) EXCEPT !.rq.rf = "fetchH", !.rq.vals = values]

\* refreshAll after PERF_HEADERS_RANGE arrived
refreshHeadersFetched(M, ok, values) ==
  IF ~ok THEN [M EXCEPT !.rq.rf = "err", !.rq.vals = << >>]
  ELSE [getSheetValues(M) EXCEPT !.rq.rf = "fetchD", !.rq.hdr = values]

\* refreshAll: "Commit snapshot atomically"
refreshCommit(M, profile, performance, joined) ==
  [M EXCEPT !.S = [profile |-> profile, performance |-> performance,
                   joinedMatched |-> joined, lastUpdated |-> Val(now),
                   lastReason |-> Val(ReasonOf(M.rq.kind))]]

\* refreshAll: the join of the two fetched datasets, then the commit
refreshJoin(M, profile, performance) ==
  refreshCommit(M, profile, performance, InnerJoin(profile, performance))

\* refreshAll: return { ok: true, lastUpdated, lastReason, counts, saveResult }
refreshReturn(M) ==
  [M EXCEPT !.rq.rf = "ok", !.rq.vals = << >>, !.rq.hdr = << >>,
            !.rq.meta = [ok |-> TRUE, lastUpdated |-> M.S.lastUpdated,
                         lastReason |-> ReasonOf(M.rq.kind),
                         joinedRows |-> M.S.joinedMatched.count,
                         saveResult |-> M.ok]]

\* refreshAll after PERF_DATA_RANGE arrived: join, commit, save, return
refreshDataFetched(M, ok, values, disk) ==
  IF ~ok THEN [M EXCEPT !.rq.rf = "err", !.rq.vals = << >>, !.rq.hdr = << >>]
  ELSE refreshReturn(
         saveSnapshotToDisk(
           refreshJoin(M, RefreshProfileDataset(M.rq.vals, M.id),
                          PerfDataset(M.rq.hdr, values, M.id)),
           disk))

\* a startup callback that refreshes whether or not the load succeeded
startupCallbackAlwaysRefreshing(M) ==
  RefreshCaller(refreshAll(
    [loadSnapshotFromDisk(M) EXCEPT !.rq.pc = "wait",
                                    !.rq.loaded = loadSnapshotFromDisk(M).ok]))

\* the app.listen callback: load the snapshot, else refreshAll("startup")
startupCallback(M) ==
  LET M1 == loadSnapshotFromDisk(M)
  IN  IF M1.ok THEN [M1 EXCEPT !.rq.pc = "done", !.rq.loaded = TRUE]
      ELSE RefreshCaller(refreshAll([M1 EXCEPT !.rq.pc = "wait"]))

(* ------------------------------------------------------------------ *)
(* Snapshot variant: the state machine                                   *)
(* ------------------------------------------------------------------ *)
\* the snapshot file an earlier run left after a refresh of content 1
PriorFileOf(profile, performance) ==
  JSONstringify(
    [profile |-> profile, performance |-> performance,
     joinedMatched |-> InnerJoin(profile, performance),
     lastUpdated |-> Val(0), lastReason |-> Val("startup"),
     stats |-> [apiCalls |-> 3, totalRequests |-> 0, cacheHits |-> 0,
                cacheMisses |-> 0, lastApiCall |-> Val(0)]])

PriorFile ==
  PriorFileOf(RefreshProfileDataset(ProfileValues(1), -1),
              PerfDataset(PerfHeaderValues(1), PerfDataValues(1), -1))

\* the server starts, with n requests to come
InitWith(n) ==
  /\ config \in {"service", "apikey", "none"}
  /\ sheet \in Contents
  /\ now = 0
  /\ SNAPSHOT = SNAPSHOT0
  /\ stats = stats0
  /\ file \in {ABSENT, CORRUPT, PriorFile}
  /\ tmp = ABSENT
  /\ cache = << >>
  /\ req = [r \in 0..n |-> NoReq]

Init == InitWith(MaxReq)

Mk(r) ==
  [S |-> SNAPSHOT, st |-> stats, f |-> file, t |-> tmp, id |-> r,
   rq |-> req[r], ok |-> TRUE]

\* the locals of a handler that has answered are garbage
Locals(rq) ==
  IF rq.pc = "done" /\ rq.resp = NULL
  THEN [rq EXCEPT !.p = NULL, !.q = NULL, !.meta = NULL]
  ELSE rq

\* the step of request r ends: the module's state is what M holds
Commit(r, M) ==
  /\ SNAPSHOT' = M.S
  /\ stats' = M.st
  /\ file' = M.f
  /\ tmp' = M.t
  /\ req' = [req EXCEPT ![r] = Locals(M.rq)]
  /\ UNCHANGED <<config, sheet, cache>>

\* a request is received: no time has passed
Received(r, M) == Commit(r, M) /\ now' = now

\* an answer of the network resumes request r: a tick has passed
Resumed(r, M) == Commit(r, M) /\ now' = now + 1

\* no answer is waiting to be written to its socket
Quiet == \A r \in Procs : req[r].resp = NULL

\* request r arrives: the server listens, requests are numbered as they come
Arrives(r) ==
  /\ r \in Reqs
  /\ Quiet
  /\ req[0].kind # "none"
  /\ req[r].kind = "none"
  /\ r > 1 => req[r - 1].kind # "none"

Begin(r, kind) == [Mk(r) EXCEPT !.rq.kind = kind, !.rq.pc = "wait"]

\* app.listen(PORT, () => { ... })
Startup ==
  /\ req[0].kind = "none"
  /\ Received(0, startupCallback(Begin(0, "startup")))

\* GET /api/profile
ApiProfile(r) ==
  /\ Arrives(r)
  /\ Received(r, Resume(getProfile(Begin(r, "profile"))))

\* GET /api/performance
ApiPerformance(r) ==
  /\ Arrives(r)
  /\ Received(r, Resume(getPerformanceFull(Begin(r, "performance"))))

\* GET /api/performance/key
ApiPerformanceKey(r) ==
  /\ Arrives(r)
  /\ Received(r, Resume(getPerformanceFull(Begin(r, "perfkey"))))

\* the values of ?onlyMatched= the requests carry (NULL: no such parameter)
Queries ==
  {NULL, Val(<<"f","a","l","s","e">>), Val(<<"F","a","l","s","e">>),
   Val(<<"t","r","u","e">>)}

\* GET /api/schools, the branch `if (onlyMatched)`
ApiSchools(r, q) ==
  /\ Arrives(r)
  /\ onlyMatched(q)
  /\ Received(r, getJoinedFull(
                 [Begin(r, "schools") EXCEPT !.rq.arg = [onlyMatched |-> q]]))

\* GET /api/schools, the outer join after the `if (onlyMatched)`
ApiSchoolsOuter(r, q) ==
  /\ Arrives(r)
  /\ ~onlyMatched(q)
  /\ Received(r, OuterAfterProfile(
                 getProfile([Begin(r, "schoolsOuter") EXCEPT
                               !.rq.pc = "waitP", !.rq.arg = [onlyMatched |-> q]])))

\* what REFRESH_TOKEN is set to ("": not set) and what a request carries
\* as ?token= and as x-refresh-token (NULL: nothing)
Credentials ==
  {[REFRESH_TOKEN |-> "", token |-> NULL, header |-> NULL],
   [REFRESH_TOKEN |-> "s3cret", token |-> NULL, header |-> NULL],
   [REFRESH_TOKEN |-> "s3cret", token |-> Val("s3cret"), header |-> NULL],
   [REFRESH_TOKEN |-> "s3cret", token |-> Val("wrong"), header |-> Val("s3cret")],
   [REFRESH_TOKEN |-> "s3cret", token |-> Val("wrong"), header |-> Val("wrong")]}

\* GET|POST /admin/refresh
AdminRefresh(r, cred) ==
  /\ Arrives(r)
  /\ Received(r, IF refreshTokenRejected(cred.REFRESH_TOKEN, cred.token, cred.header)
                 THEN Unauthorized([Begin(r, "refresh") EXCEPT !.rq.arg = cred])
                 ELSE RefreshCaller(refreshAll(
                        [Begin(r, "refresh") EXCEPT !.rq.arg = cred])))

\* auth.authorize() of a getProfile settles
ProfileAuthorized(r, ok) ==
  /\ Quiet
  /\ req[r].gp = "auth"
  /\ Resumed(r, Resume(getProfileAuthorized(Mk(r), ok)))

\* the values.get of a getProfile settles, with values when it succeeds
ProfileFetched(r, ok, values) ==
  /\ Quiet
  /\ req[r].gp = "fetch"
  /\ Resumed(r, Resume(getProfileFetched(Mk(r), ok, values)))

\* auth.authorize() of a getPerformanceFull settles
PerformanceAuthorized(r, ok) ==
  /\ Quiet
  /\ req[r].gq = "auth"
  /\ Resumed(r, Resume(getPerformanceAuthorized(Mk(r), ok)))

\* the values.get of the header rows of a getPerformanceFull settles
PerformanceHeadersFetched(r, ok, values) ==
  /\ Quiet
  /\ req[r].gq = "fetchH"
  /\ Resumed(r, Resume(getPerformanceHeaders(Mk(r), ok, values)))

\* the values.get of the data rows of a getPerformanceFull settles
PerformanceDataFetched(r, ok, values) ==
  /\ Quiet
  /\ req[r].gq = "fetchD"
  /\ Resumed(r, Resume(getPerformanceData(Mk(r), ok, values)))

\* auth.authorize() of a refreshAll settles
RefreshAuthorized(r, ok) ==
  /\ Quiet
  /\ req[r].rf = "auth"
  /\ Resumed(r, RefreshCaller(refreshAuthorized(Mk(r), ok)))

\* the three values.get of a refreshAll settle, one after the other
RefreshProfileFetched(r, ok) ==
  /\ Quiet
  /\ req[r].rf = "fetchP"
  /\ Resumed(r, RefreshCaller(refreshProfileFetched(Mk(r), ok, ProfileValues(sheet))))

RefreshHeadersFetched(r, ok) ==
  /\ Quiet
  /\ req[r].rf = "fetchH"
  /\ Resumed(r, RefreshCaller(refreshHeadersFetched(Mk(r), ok, PerfHeaderValues(sheet))))

RefreshDataFetched(r, ok, disk) ==
  /\ Quiet
  /\ req[r].rf = "fetchD"
  /\ Resumed(r, RefreshCaller(
                 refreshDataFetched(Mk(r), ok, PerfDataValues(sheet), disk)))

\* POST /admin/save
AdminSave(r, disk) ==
  /\ Arrives(r)
  /\ LET M == saveSnapshotToDisk(Begin(r, "save"), disk)
     IN  Received(r, Respond(M, [action |-> "save", ok |-> M.ok]))

\* POST /admin/load
AdminLoad(r) ==
  /\ Arrives(r)
  /\ LET M == loadSnapshotFromDisk(Begin(r, "load"))
     IN  Received(r, Respond(M, [action |-> "load", ok |-> M.ok]))

\* res.json(...) of request r has written the answer: the handler is over
Answered(r) ==
  /\ req[r].resp # NULL
  /\ req' = [req EXCEPT ![r] = Locals([@ EXCEPT !.resp = NULL])]
  /\ UNCHANGED <<config, sheet, now, SNAPSHOT, stats, file, tmp, cache>>

\* somebody edits the spreadsheet
EditSheet ==
  /\ Quiet
  /\ sheet + 1 \in Contents
  /\ sheet' = sheet + 1
  /\ UNCHANGED <<config, now, SNAPSHOT, stats, file, tmp, cache, req>>

Next ==
  \/ Startup
  \/ \E r \in Reqs : ApiProfile(r)
  \/ \E r \in Reqs : ApiPerformance(r)
  \/ \E r \in Reqs : ApiPerformanceKey(r)
  \/ \E r \in Reqs, q \in Queries : ApiSchools(r, q)
  \/ \E r \in Reqs, q \in Queries : ApiSchoolsOuter(r, q)
  \/ \E r \in Reqs, cred \in Credentials : AdminRefresh(r, cred)
  \/ \E r \in Procs, ok \in BOOLEAN : ProfileAuthorized(r, ok)
  \/ \E r \in Procs, ok \in BOOLEAN : ProfileFetched(r, ok, ProfileValues(sheet))
  \/ \E r \in Procs, ok \in BOOLEAN : PerformanceAuthorized(r, ok)
  \/ \E r \in Procs, ok \in BOOLEAN : PerformanceHeadersFetched(r, ok, PerfHeaderValues(sheet))
  \/ \E r \in Procs, ok \in BOOLEAN : PerformanceDataFetched(r, ok, PerfDataValues(sheet))
  \/ \E r \in Procs, ok \in BOOLEAN : RefreshAuthorized(r, ok)
  \/ \E r \in Procs, ok \in BOOLEAN : RefreshProfileFetched(r, ok)
  \/ \E r \in Procs, ok \in BOOLEAN : RefreshHeadersFetched(r, ok)
  \/ \E r \in Procs, ok \in BOOLEAN, disk \in DiskOutcomes : RefreshDataFetched(r, ok, disk)
  \/ \E r \in Reqs, disk \in DiskOutcomes : AdminSave(r, disk)
  \/ \E r \in Reqs : AdminLoad(r)
  \/ \E r \in Reqs : Answered(r)
  \/ EditSheet

Spec == Init /\ [][Next]_vars

(* ------------------------------------------------------------------ *)
(* Snapshot variant, dataset reads only: MaxReads requests, each         *)
(* GET /api/profile or GET /api/performance, beside the startup          *)
(* ------------------------------------------------------------------ *)
InitReads == InitWith(MaxReads)

NextReads ==
  \/ Startup
  \/ \E r \in Reqs : ApiProfile(r)
  \/ \E r \in Reqs : ApiPerformance(r)
  \/ \E r \in Procs, ok \in BOOLEAN : ProfileAuthorized(r, ok)
  \/ \E r \in Procs, ok \in BOOLEAN : ProfileFetched(r, ok, ProfileValues(sheet))
  \/ \E r \in Procs, ok \in BOOLEAN : PerformanceAuthorized(r, ok)
  \/ \E r \in Procs, ok \in BOOLEAN : PerformanceHeadersFetched(r, ok, PerfHeaderValues(sheet))
  \/ \E r \in Procs, ok \in BOOLEAN : PerformanceDataFetched(r, ok, PerfDataValues(sheet))
  \/ \E r \in Procs, ok \in BOOLEAN : RefreshAuthorized(r, ok)
  \/ \E r \in Procs, ok \in BOOLEAN : RefreshProfileFetched(r, ok)
  \/ \E r \in Procs, ok \in BOOLEAN : RefreshHeadersFetched(r, ok)
  \/ \E r \in Procs, ok \in BOOLEAN, disk \in DiskOutcomes : RefreshDataFetched(r, ok, disk)
  \/ \E r \in Reqs : Answered(r)
  \/ EditSheet

SpecReads == InitReads /\ [][NextReads]_vars

(* ------------------------------------------------------------------ *)
(* Snapshot variant: the properties                                      *)
(* ------------------------------------------------------------------ *)
\* a refreshAll that has started and has neither returned nor thrown
InFlight == {"auth", "fetchP", "fetchH", "fetchD"}

\* C1: no request joins a Profile dataset produced by one refresh or fetching
\* request with a Performance dataset produced by another: whenever a
\* reader of both (GET /api/schools, inner or outer) holds the two, they
\* were fetched by the same request or refresh.
ReadersSeeOneProvenance ==
  \A r \in Reqs :
    (/\ req[r].kind \in {"schools", "schoolsOuter"}
     /\ req[r].p # NULL
     /\ req[r].q # NULL)
    => req[r].p.by = req[r].q.by

\* C2: refresh actions are mutually exclusive: at most one refreshAll is
\* between its start and its completion.
RefreshesAreSerialized ==
  Cardinality({r \in Procs : req[r].rf \in InFlight}) <= 1

\* C3: the Snapshot is never partially updated: profile, performance and
\* the joined view are all null or all populated.
SnapshotAllOrNothing ==
  \/ (SNAPSHOT.profile = NULL /\ SNAPSHOT.performance = NULL
      /\ SNAPSHOT.joinedMatched = NULL)
  \/ (SNAPSHOT.profile # NULL /\ SNAPSHOT.performance # NULL
      /\ SNAPSHOT.joinedMatched # NULL)

\* request r has been answered and none of its fetches failed
ReadSucceeded(r) ==
  /\ req[r].pc = "done"
  /\ req[r].gp # "err"
  /\ req[r].gq # "err"

\* C8: the fetch-and-populate fallback of a dataset read is one-time: of
\* two reads of the same dataset (profile, performance) whose fetches do
\* not fail, at most one, the first, fetches from upstream.
FallbackFetchesOnce ==
  \A r1, r2 \in Reqs :
    (/\ r1 # r2
     /\ req[r1].kind \in {"profile", "performance"}
     /\ req[r2].kind = req[r1].kind
     /\ ReadSucceeded(r1)
     /\ ReadSucceeded(r2))
    => ~(req[r1].calls > 0 /\ req[r2].calls > 0)

\* a step of the refreshAll of r that is not its commit: it starts, goes on
\* to its next fetch, or fails
RefreshStepBeforeCommit(r) ==
  req'[r].rf # req[r].rf /\ req'[r].rf # "ok"

\* C4: a refresh is all-or-nothing on failure: every step of a refreshAll
\* other than its commit (above all the step in which getSheetsClient or
\* one of the three fetches fails) leaves profile, performance, joined
\* view, lastUpdated and lastReason of the Snapshot as they are and
\* writes neither the snapshot file nor its .tmp file.
FailedRefreshChangesNothing ==
  [][\A r \in Procs :
       RefreshStepBeforeCommit(r) => UNCHANGED <<SNAPSHOT, file, tmp>>]_vars

\* C4 happens: an /admin/refresh has failed (500) over a Snapshot that the
\* startup had populated, and the Snapshot is still the startup's.
FailedRefreshOverPopulatedSnapshot ==
  \E r \in Reqs :
    /\ req[r].kind = "refresh"
    /\ req[r].rf = "err"
    /\ req[r].calls > 0
    /\ req[r].resp = [code |-> 500, body |-> NULL]
    /\ SNAPSHOT.profile # NULL
    /\ SNAPSHOT.lastReason = Val("startup")

\* the profile, performance and joined view the snapshot file holds (none
\* when there is no file to parse)
DiskTriple ==
  IF file = ABSENT \/ file = CORRUPT
  THEN [profile |-> NULL, performance |-> NULL, joinedMatched |-> NULL]
  ELSE [profile |-> JSONparse(file).profile,
        performance |-> JSONparse(file).performance,
        joinedMatched |-> JSONparse(file).joinedMatched]

MemoryTriple ==
  [profile |-> SNAPSHOT.profile, performance |-> SNAPSHOT.performance,
   joinedMatched |-> SNAPSHOT.joinedMatched]

\* C5: when a refresh that committed has finished (its save succeeded or
\* failed while persisting), the snapshot file holds the same profile,
\* performance and joined view as the in-memory Snapshot.
RefreshLeavesDiskEqualToMemory ==
  [][\A r \in Procs :
       (req[r].rf # "ok" /\ req'[r].rf = "ok") => DiskTriple' = MemoryTriple']_vars

\* the startup callback runs: it loads the file, else it starts a refresh
StartupLoadsFirst ==
  (req[0].kind = "none" /\ req'[0].kind = "startup") =>
    IF file = ABSENT \/ file = CORRUPT
    THEN /\ ~req'[0].loaded
         /\ req'[0].rf # "off"
         /\ UNCHANGED <<SNAPSHOT, file, tmp>>
    ELSE /\ req'[0].loaded
         /\ req'[0].pc = "done"
         /\ MemoryTriple' = DiskTriple
         /\ SNAPSHOT'.lastReason = JSONparse(file).lastReason
         /\ stats'.apiCalls = JSONparse(file).stats.apiCalls

\* the refresh of the startup succeeds: the Snapshot is the one it fetched
StartupRefreshPopulates ==
  (req[0].rf # "ok" /\ req'[0].rf = "ok") =>
    /\ SNAPSHOT'.lastReason = Val("startup")
    /\ SNAPSHOT'.profile # NULL /\ SNAPSHOT'.profile.by = 0
    /\ SNAPSHOT'.performance # NULL /\ SNAPSHOT'.performance.by = 0
    /\ SNAPSHOT'.joinedMatched # NULL

\* the startup callback after a load: no refresh, no fetch; after a failed
\* load: one refresh, of at most three fetches (three when it succeeds)
StartupOneRefresh ==
  /\ req[0].loaded => (req[0].rf = "off" /\ req[0].calls = 0)
  /\ (req[0].kind = "startup" /\ ~req[0].loaded) =>
       (req[0].rf # "off" /\ req[0].calls <= 3)
  /\ req[0].rf = "ok" => req[0].calls = 3

\* C6: at startup the server first tries to load the Snapshot from the
\* snapshot file; if the load succeeds no upstream fetch is made and no
\* refresh runs; if the file is absent or unreadable exactly one refresh
\* with reason "startup" is performed (a refresh that has ended never
\* starts again), and on its success the Snapshot is populated with
\* lastReason = "startup".
StartupLoadsElseRefreshesOnce ==
  /\ []StartupOneRefresh
  /\ [][/\ StartupLoadsFirst
        /\ StartupRefreshPopulates
        /\ req[0].rf \in {"ok", "err"} => req'[0].rf = req[0].rf]_vars

\* C6 happens: the file could not be loaded and the startup refresh has
\* succeeded with its three fetches.
StartupRefreshSucceeded ==
  /\ req[0].kind = "startup"
  /\ ~req[0].loaded
  /\ req[0].rf = "ok"
  /\ req[0].calls = 3
  /\ SNAPSHOT.lastReason = Val("startup")
  /\ SNAPSHOT.profile # NULL
  /\ SNAPSHOT.profile.by = 0

\* request r arrives as a read of `kind` and is answered in the same step
\* with `body`, as one hit and no miss, no fetch
ServedAsHit(r, kind, body) ==
  (req[r].kind = "none" /\ req'[r].kind = kind) =>
    /\ req'[r].resp = [code |-> 200, body |-> body]
    /\ stats'.cacheHits = stats.cacheHits + 1
    /\ stats'.cacheMisses = stats.cacheMisses
    /\ stats'.apiCalls = stats.apiCalls
    /\ stats'.lastApiCall = stats.lastApiCall
    /\ req'[r].calls = 0

\* C7: a read of a dataset (profile, performance, inner-joined view) whose
\* Snapshot field is populated returns exactly that field's value, counts
\* as one hit and makes no upstream fetch, however long ago the field was
\* populated.
PopulatedReadIsHit ==
  [][\A r \in Reqs :
       /\ SNAPSHOT.profile # NULL =>
            ServedAsHit(r, "profile", SNAPSHOT.profile)
       /\ SNAPSHOT.performance # NULL =>
            ServedAsHit(r, "performance", SNAPSHOT.performance)
       /\ SNAPSHOT.joinedMatched # NULL =>
            ServedAsHit(r, "schools", SNAPSHOT.joinedMatched)]_vars

\* C7 happens: GET /api/profile was answered from a Snapshot populated
\* three fetches (or more) ago.
ProfileServedFromSnapshot ==
  \E r \in Reqs :
    /\ req[r].kind = "profile"
    /\ SNAPSHOT.profile # NULL
    /\ req[r].resp = [code |-> 200, body |-> SNAPSHOT.profile]
    /\ req[r].calls = 0
    /\ stats.cacheHits > 0
    /\ SNAPSHOT.lastUpdated # NULL
    /\ now > SNAPSHOT.lastUpdated.v

\* the kinds of request that return a dataset
DatasetKinds == {"profile", "performance", "perfkey", "schools", "schoolsOuter"}

\* request r was a dataset request and has failed (it was answered 500)
ReadFailed(r) ==
  /\ req[r].kind \in DatasetKinds
  /\ req[r].pc = "done"
  /\ (req[r].gp = "err" \/ req[r].gq = "err")

\* C11: a dataset request that fails with an upstream fetch error populates
\* nothing: no field of the Snapshot holds a dataset that a failed request
\* fetched.
FailedReadPopulatesNothing ==
  \A r \in Reqs :
    ReadFailed(r) =>
      /\ SNAPSHOT.profile # NULL => SNAPSHOT.profile.by # r
      /\ SNAPSHOT.performance # NULL => SNAPSHOT.performance.by # r

\* an operation (a dataset request, an /admin/refresh, the startup refresh)
\* of r has ended with a failure of getSheetsClient or of a fetch
OperationFailed(r) ==
  /\ req[r].pc = "done"
  /\ (req[r].gp = "err" \/ req[r].gq = "err" \/ req[r].rf = "err")

\* C12: every operation whose upstream fetch fails increases the errors
\* counter by exactly one: the counter is the number of failed operations.
FailedOperationsCountOnce ==
  stats.errors = Cardinality({r \in Procs : OperationFailed(r)})

\* C13: when the required configuration is missing, every dataset request
\* is answered with an error and makes no upstream fetch, whatever the
\* Snapshot holds.
MissingConfigFailsEveryRead ==
  config = "none" =>
    \A r \in Reqs :
      (req[r].kind \in DatasetKinds /\ req[r].resp # NULL) =>
        (req[r].resp.code = 500 /\ req[r].calls = 0)

\* C18: each request to a dataset-returning endpoint increases the
\* total-requests counter by exactly one.
EachRequestCountsOnce ==
  [][\A r \in Reqs :
       (req[r].kind = "none" /\ req'[r].kind \in DatasetKinds) =>
         stats'.totalRequests = stats.totalRequests + 1]_vars

\* the step in which request r arrives as a request of `kind`
ArrivesAs(r, kind) == req[r].kind = "none" /\ req'[r].kind = kind

\* POST /admin/load: the answer tells whether the file could be read, and a
\* load that fails leaves the Snapshot, the counters and the disk alone
FailedLoadChangesNothing(r) ==
  ArrivesAs(r, "load") =>
    /\ req'[r].resp.code = 200
    /\ req'[r].resp.body.ok = (file # ABSENT /\ file # CORRUPT)
    /\ ~req'[r].resp.body.ok => UNCHANGED <<SNAPSHOT, stats, file, tmp>>

\* POST /admin/save: a save that fails leaves the Snapshot and the file alone
FailedSaveChangesNothing(r) ==
  ArrivesAs(r, "save") =>
    /\ req'[r].resp.code = 200
    /\ ~req'[r].resp.body.ok => UNCHANGED <<SNAPSHOT, stats, file>>

\* the save of a refreshAll fails: refreshAll returns all the same, with
\* saveResult.ok false and the file as it was
FailedSaveOfRefreshReturns(r) ==
  (req[r].rf = "fetchD" /\ req'[r].rf = "ok" /\ ~req'[r].resp.body.saveResult) =>
    /\ req'[r].resp.code = 200
    /\ file' = file

\* C14: a failing persistence action (save or load: file missing,
\* unparsable, write or rename error) returns ok: false instead of
\* throwing, and leaves every in-memory Snapshot field unchanged.
FailedPersistenceChangesNothing ==
  [][/\ \A r \in Reqs :
          /\ FailedLoadChangesNothing(r)
          /\ FailedSaveChangesNothing(r)
          /\ FailedSaveOfRefreshReturns(r)
     /\ (req[0].kind = "none" /\ req'[0].kind = "startup" /\ ~req'[0].loaded) =>
          UNCHANGED SNAPSHOT]_vars

\* C14 happens: POST /admin/load has failed over a populated Snapshot, which
\* is still populated.
FailedLoadOverPopulatedSnapshot ==
  \E r \in Reqs :
    /\ req[r].kind = "load"
    /\ req[r].resp = [code |-> 200, body |-> [action |-> "load", ok |-> FALSE]]
    /\ SNAPSHOT.profile # NULL
    /\ SNAPSHOT.joinedMatched # NULL

\* the Snapshot a server with an empty Snapshot loads from the file `f`
LoadedFrom(f) ==
  loadSnapshotFromDisk([Mk(0) EXCEPT !.S = SNAPSHOT0, !.f = f]).S

\* the file a successful save of the Snapshot writes now
SavedNow == saveSnapshotToDisk(Mk(0), "ok").f

\* saving the Snapshot, clearing it and loading the file gives it back
SaveLoadGivesBack == LoadedFrom(SavedNow) = SNAPSHOT

\* POST /admin/save succeeds: the file it wrote loads back as the Snapshot
SavedFileLoadsBack(r) ==
  (ArrivesAs(r, "save") /\ req'[r].resp.body.ok) =>
    (file' = SavedNow /\ LoadedFrom(file') = SNAPSHOT')

\* C15: save/load round trip: for every reachable Snapshot, saving it to
\* disk, clearing the in-memory Snapshot and loading from disk yields a
\* Snapshot whose profile, performance, joined view, lastUpdated and
\* lastReason equal those that were saved.
SaveLoadRoundTrip ==
  /\ []SaveLoadGivesBack
  /\ [][\A r \in Reqs : SavedFileLoadsBack(r)]_vars

\* C15 happens: POST /admin/save has written a populated Snapshot, and the
\* file on disk loads back as that Snapshot.
SavedSnapshotLoadsBack ==
  \E r \in Reqs :
    /\ req[r].kind = "save"
    /\ req[r].resp = [code |-> 200, body |-> [action |-> "save", ok |-> TRUE]]
    /\ SNAPSHOT.profile # NULL
    /\ SNAPSHOT.joinedMatched # NULL
    /\ SNAPSHOT.lastReason = Val("startup")
    /\ LoadedFrom(file) = SNAPSHOT

\* C16: the snapshot file is never observable in a partially written
\* state: whatever a step does (a save that succeeds, fails while writing
\* the temporary file, or stops before the rename), the file at
\* SNAPSHOT_FILE is afterwards the file it was or the complete document of
\* the Snapshot being saved.
SnapshotFileNeverPartial ==
  [][\/ file' = file
     \/ (file' # ABSENT /\ file' # CORRUPT /\ file' = SavedNow')]_vars

\* C16 happens: a save has failed while writing, leaving a partial .tmp
\* file, and the snapshot file is still the complete document it was.
FailedWriteLeavesFileWhole ==
  \E r \in Reqs :
    /\ req[r].kind = "save"
    /\ req[r].resp = [code |-> 200, body |-> [action |-> "save", ok |-> FALSE]]
    /\ tmp = CORRUPT
    /\ file = PriorFile
    /\ LoadedFrom(file) = SNAPSHOT

\* the request carries none of the configured token: REFRESH_TOKEN is set
\* and both ?token= and x-refresh-token differ from it
CarriesNoToken(cred) ==
  /\ cred.REFRESH_TOKEN # ""
  /\ (cred.token = NULL \/ cred.token.v # cred.REFRESH_TOKEN)
  /\ (cred.header = NULL \/ cred.header.v # cred.REFRESH_TOKEN)

\* /admin/refresh arrives: 401 and nothing else, or the refresh starts
RefreshGate(r) ==
  ArrivesAs(r, "refresh") =>
    IF CarriesNoToken(req'[r].arg)
    THEN /\ req'[r].resp = [code |-> 401, body |-> NULL]
         /\ req'[r].rf = "off"
         /\ req'[r].calls = 0
         /\ UNCHANGED <<SNAPSHOT, stats, file, tmp>>
    ELSE /\ req'[r].rf # "off"
         /\ (req'[r].resp = NULL \/ req'[r].resp.code # 401)

\* C17: when a refresh token is configured, a request to /admin/refresh
\* whose ?token= and x-refresh-token both differ from it is answered 401
\* and triggers no refresh (no upstream fetch, Snapshot and snapshot file
\* unchanged, a refresh that did not start never starts); a request
\* carrying the token in either place triggers the refresh.
RefreshNeedsTheToken ==
  [][\A r \in Reqs :
       /\ RefreshGate(r)
       /\ (req[r].kind = "refresh" /\ req[r].rf = "off") =>
            (req'[r].rf = "off" /\ req'[r].calls = 0)]_vars

\* C17 happens: a request with a wrong token was answered 401 over a
\* Snapshot that the startup had populated.
WrongTokenUnauthorized ==
  \E r \in Reqs :
    /\ req[r].kind = "refresh"
    /\ req[r].arg.REFRESH_TOKEN = "s3cret"
    /\ req[r].arg.token = Val("wrong")
    /\ req[r].arg.header = Val("wrong")
    /\ req[r].resp = [code |-> 401, body |-> NULL]
    /\ req[r].calls = 0
    /\ SNAPSHOT.lastReason = Val("startup")

\* ?onlyMatched= is "false" in some case of its letters
AsksOuterJoin(q) ==
  q # NULL /\ toLowerCase(q.v) = <<"f","a","l","s","e">>

StdTTL == 60
\* the clock advances by TickSeconds, MaxTicks times
TickSeconds == 30
MaxTicks == 3

\* request r waits for an answer of the network
Calling(r) ==
  \/ req[r].gp \in {"auth", "fetch"}
  \/ req[r].gq \in {"auth", "fetchH", "fetchD"}
  \/ req[r].rf \in {"auth", "fetchP", "fetchH", "fetchD"}

\* cache.get(key), first half: the get that finds an expired entry deletes it
cacheGet(T, key) ==
  IF T.c[key] # NULL /\ T.c[key].t < now THEN [T EXCEPT !.c[key] = NULL] ELSE T

\* cache.set(key, v): the entry expires stdTTL seconds from now
cacheSet(T, key, v) == [T EXCEPT !.c[key] = [v |-> v, t |-> now + StdTTL]]

\* time passes; a call of the network takes less than a tick
Tick ==
  /\ Quiet
  /\ \A r \in Procs : ~Calling(r)
  /\ now < MaxTicks * TickSeconds
  /\ now' = now + TickSeconds
  /\ UNCHANGED <<config, sheet, SNAPSHOT, stats, file, tmp, cache, req>>

(* ------------------------------------------------------------------ *)
(* TTL variant (src/unnamed/part_001): the code between two awaits, as   *)
(* a function of T = [c: cache, st: stats, id: request id, rq: the       *)
(* request's own state].  Datasets carry by = 0 here.                    *)
(* ------------------------------------------------------------------ *)
CacheKeys ==
  {"profile_full", "performance_full", "performance_key", "joined_full_matched"}

\* a request not yet received.  History fields: sent, at (the answer and
\* the time it was sent), seen (the counters when this one arrived)
NoRead ==
  [kind |-> "none", pc |-> "idle", gp |-> "off", gq |-> "off", rf |-> "off",
   p |-> NULL, q |-> NULL, vals |-> << >>, hdr |-> << >>, resp |-> NULL,
   meta |-> NULL, loaded |-> FALSE, calls |-> 0,
   sent |-> NULL, at |-> 0, seen |-> stats0]

\* getProfile (TTL) after cache.get("profile_full")
getProfileCached(T) ==
  IF T.c["profile_full"] # NULL
  THEN [T EXCEPT !.st.cacheHits = @ + 1, !.rq.gp = "ok",
                 !.rq.p = T.c["profile_full"].v]
  ELSE getSheetsClient([T EXCEPT !.st.cacheMisses = @ + 1], "gp", "fetch")

\* getProfile (TTL) up to its first await of the network
getProfileTTL(T) ==
  getProfileCached(cacheGet([T EXCEPT !.st.totalRequests = @ + 1], "profile_full"))

\* getProfile (TTL): cache.set(cacheKey, result); return result
getProfileStore(T, result) ==
  [cacheSet(T, "profile_full", result) EXCEPT !.rq.gp = "ok", !.rq.p = result]

\* getProfile (TTL) after the values of PROFILE_RANGE arrived
getProfileFetchedTTL(T, ok, values) ==
  IF ~ok THEN [T EXCEPT !.rq.gp = "err"]
  ELSE IF Len(values) = 0
  THEN [T EXCEPT !.rq.gp = "ok", !.rq.p = EmptyDataset(0)]
  ELSE getProfileStore(T, ProfileDataset(values, 0))

\* getPerformanceFull (TTL) after cache.get("performance_full")
getPerformanceCached(T) ==
  IF T.c["performance_full"] # NULL
  THEN [T EXCEPT !.st.cacheHits = @ + 1, !.rq.gq = "ok",
                 !.rq.q = T.c["performance_full"].v]
  ELSE getSheetsClient([T EXCEPT !.st.cacheMisses = @ + 1], "gq", "fetchH")

\* getPerformanceFull (TTL) up to its first await of the network
getPerformanceFullTTL(T) ==
  getPerformanceCached(
    cacheGet([T EXCEPT !.st.totalRequests = @ + 1], "performance_full"))

\* getPerformanceFull (TTL): cache.set(cacheKey, result); return result
getPerformanceStore(T, result) ==
  [cacheSet(T, "performance_full", result) EXCEPT
     !.rq.gq = "ok", !.rq.q = result, !.rq.hdr = << >>]

\* getPerformanceFull (TTL) after PERF_DATA_RANGE arrived
getPerformanceDataTTL(T, ok, values) ==
  IF ~ok THEN [T EXCEPT !.rq.gq = "err", !.rq.hdr = << >>]
  ELSE getPerformanceStore(T, PerfDataset(T.rq.hdr, values, 0))

\* cache.set(cacheKey, result); return result, of getPerformanceKey and of
\* getJoinedFull, and the res.json(result) of their route
StoreAndRespond(T, key, result) == Respond(cacheSet(T, key, result), result)

\* a route handler of the TTL variant resumes after one of its awaits
ResumeTTL(T) ==
  CASE T.rq.pc = "done" -> T
    [] T.rq.kind = "profile" ->
         CASE T.rq.gp = "ok"  -> Respond(T, T.rq.p)
           [] T.rq.gp = "err" -> Fail500(T)
           [] OTHER -> T
    [] T.rq.kind = "performance" ->
         CASE T.rq.gq = "ok"  -> Respond(T, T.rq.q)
           [] T.rq.gq = "err" -> Fail500(T)
           [] OTHER -> T
    [] T.rq.kind = "perfkey" ->
         CASE T.rq.gq = "ok"  ->
                StoreAndRespond(T, "performance_key", PerformanceKeyBody(T.rq.q))
           [] T.rq.gq = "err" -> Fail500(T)
           [] OTHER -> T
    [] T.rq.kind = "schools" ->
         IF T.rq.gp = "err" \/ T.rq.gq = "err" THEN Fail500(T)
         ELSE IF T.rq.gp = "ok" /\ T.rq.gq = "ok"
         THEN StoreAndRespond(T, "joined_full_matched", InnerJoin(T.rq.p, T.rq.q))
         ELSE T
    [] T.rq.kind = "schoolsOuter" ->
         IF T.rq.gp = "err" \/ T.rq.gq = "err" THEN Fail500(T)
         ELSE IF T.rq.gp = "ok" /\ T.rq.gq = "ok"
         THEN Respond(T, OuterJoin(T.rq.p, T.rq.q))
         ELSE T
    [] OTHER -> T

\* getPerformanceKey after cache.get("performance_key")
getPerformanceKeyCached(T) ==
  IF T.c["performance_key"] # NULL
  THEN Respond([T EXCEPT !.st.cacheHits = @ + 1], T.c["performance_key"].v)
  ELSE ResumeTTL(getPerformanceFullTTL([T EXCEPT !.st.cacheMisses = @ + 1]))

\* getPerformanceKey up to its first await of the network
getPerformanceKey(T) ==
  getPerformanceKeyCached(
    cacheGet([T EXCEPT !.st.totalRequests = @ + 1], "performance_key"))

\* getJoinedFull (TTL) after cache.get("joined_full_matched")
getJoinedFullCached(T) ==
  IF T.c["joined_full_matched"] # NULL
  THEN Respond([T EXCEPT !.st.cacheHits = @ + 1], T.c["joined_full_matched"].v)
  ELSE ResumeTTL(getPerformanceFullTTL(getProfileTTL(
         [T EXCEPT !.st.cacheMisses = @ + 1])))

\* getJoinedFull (TTL) up to its await of Promise.all
getJoinedFullTTL(T) ==
  getJoinedFullCached(
    cacheGet([T EXCEPT !.st.totalRequests = @ + 1], "joined_full_matched"))

(* ------------------------------------------------------------------ *)
(* TTL variant: the state machine                                        *)
(* ------------------------------------------------------------------ *)
InitTTL ==
  /\ config \in {"service", "apikey", "none"}
  /\ sheet \in Contents
  /\ now = 0
  /\ SNAPSHOT = SNAPSHOT0
  /\ stats = stats0
  /\ file = ABSENT
  /\ tmp = ABSENT
  /\ cache = [k \in CacheKeys |-> NULL]
  /\ req = [r \in 1..MaxReads |-> NoRead]

MkTTL(r) == [c |-> cache, st |-> stats, id |-> r, rq |-> req[r]]

\* request r arrives: the clients of this specification send one request
\* after the other, each when the one before is over
ArrivesTTL(r) ==
  /\ r \in Reqs
  /\ Quiet
  /\ req[r].kind = "none"
  /\ r > 1 => (req[r - 1].pc = "done" /\ ~Calling(r - 1))

BeginTTL(r, kind) ==
  [MkTTL(r) EXCEPT !.rq.kind = kind, !.rq.pc = "wait", !.rq.seen = stats]

\* the answer a request has given, kept once it has been written
Sent(rq) ==
  IF rq.resp # NULL /\ rq.sent = NULL
  THEN [rq EXCEPT !.sent = rq.resp, !.at = now]
  ELSE rq

\* the step of request r ends: the module's state is what T holds
CommitTTL(r, T) ==
  /\ cache' = T.c
  /\ stats' = T.st
  /\ req' = [req EXCEPT ![r] = Locals(Sent(T.rq))]
  /\ UNCHANGED <<config, sheet, now, SNAPSHOT, file, tmp>>

\* GET /api/profile
TTLProfile(r) ==
  /\ ArrivesTTL(r)
  /\ CommitTTL(r, ResumeTTL(getProfileTTL(BeginTTL(r, "profile"))))

\* GET /api/performance
TTLPerformance(r) ==
  /\ ArrivesTTL(r)
  /\ CommitTTL(r, ResumeTTL(getPerformanceFullTTL(BeginTTL(r, "performance"))))

\* GET /api/performance/key
TTLPerformanceKey(r) ==
  /\ ArrivesTTL(r)
  /\ CommitTTL(r, getPerformanceKey(BeginTTL(r, "perfkey")))

\* GET /api/schools (onlyMatched absent or not "false")
TTLSchools(r) ==
  /\ ArrivesTTL(r)
  /\ CommitTTL(r, getJoinedFullTTL(BeginTTL(r, "schools")))

\* GET /api/schools?onlyMatched=false
TTLSchoolsOuter(r) ==
  /\ ArrivesTTL(r)
  /\ CommitTTL(r, ResumeTTL(getPerformanceFullTTL(getProfileTTL(
                    BeginTTL(r, "schoolsOuter")))))

\* auth.authorize() of a getProfile settles
TTLProfileAuthorized(r, ok) ==
  /\ Quiet
  /\ req[r].gp = "auth"
  /\ CommitTTL(r, ResumeTTL(getProfileAuthorized(MkTTL(r), ok)))

\* the values.get of a getProfile settles
TTLProfileFetched(r, ok) ==
  /\ Quiet
  /\ req[r].gp = "fetch"
  /\ CommitTTL(r, ResumeTTL(getProfileFetchedTTL(MkTTL(r), ok, ProfileValues(sheet))))

\* auth.authorize() of a getPerformanceFull settles
TTLPerformanceAuthorized(r, ok) ==
  /\ Quiet
  /\ req[r].gq = "auth"
  /\ CommitTTL(r, ResumeTTL(getPerformanceAuthorized(MkTTL(r), ok)))

\* the values.get of the header rows of a getPerformanceFull settles
TTLPerformanceHeadersFetched(r, ok) ==
  /\ Quiet
  /\ req[r].gq = "fetchH"
  /\ CommitTTL(r, ResumeTTL(getPerformanceHeaders(MkTTL(r), ok, PerfHeaderValues(sheet))))

\* the values.get of the data rows of a getPerformanceFull settles
TTLPerformanceDataFetched(r, ok) ==
  /\ Quiet
  /\ req[r].gq = "fetchD"
  /\ CommitTTL(r, ResumeTTL(getPerformanceDataTTL(MkTTL(r), ok, PerfDataValues(sheet))))

NextTTL ==
  \/ \E r \in Reqs : TTLProfile(r)
  \/ \E r \in Reqs : TTLPerformance(r)
  \/ \E r \in Reqs : TTLPerformanceKey(r)
  \/ \E r \in Reqs : TTLSchools(r)
  \/ \E r \in Reqs : TTLSchoolsOuter(r)
  \/ \E r \in Reqs, ok \in BOOLEAN : TTLProfileAuthorized(r, ok)
  \/ \E r \in Reqs, ok \in BOOLEAN : TTLProfileFetched(r, ok)
  \/ \E r \in Reqs, ok \in BOOLEAN : TTLPerformanceAuthorized(r, ok)
  \/ \E r \in Reqs, ok \in BOOLEAN : TTLPerformanceHeadersFetched(r, ok)
  \/ \E r \in Reqs, ok \in BOOLEAN : TTLPerformanceDataFetched(r, ok)
  \/ \E r \in Reqs : Answered(r)
  \/ EditSheet
  \/ Tick

SpecTTL == InitTTL /\ [][NextTTL]_vars

(* ------------------------------------------------------------------ *)
(* TTL variant: the properties                                           *)
(* ------------------------------------------------------------------ *)
\* the routes that read one dataset key of the cache: profile_full,
\* performance_full, performance_key, joined_full_matched
KeyedReads == {"profile", "performance", "perfkey", "schools"}

\* C9: two consecutive successful reads of the same dataset key within the
\* TTL window return identical content, and the second increments
\* cacheHits and leaves cacheMisses and apiCalls unchanged.
ConsecutiveReadsHit ==
  \A r \in Reqs :
    (/\ r > 1
     /\ req[r].kind \in KeyedReads
     /\ req[r - 1].kind = req[r].kind
     /\ req[r - 1].sent # NULL
     /\ req[r - 1].sent.code = 200
     /\ req[r].resp # NULL
     /\ req[r].resp.code = 200
     /\ now - req[r - 1].at < StdTTL)
    => /\ req[r].resp.body = req[r - 1].sent.body
       /\ stats.cacheHits = req[r].seen.cacheHits + 1
       /\ stats.cacheMisses = req[r].seen.cacheMisses
       /\ stats.apiCalls = req[r].seen.apiCalls

(* ------------------------------------------------------------------ *)
(* Generic sheet server (src/server.js, lines 1-193), as a function of   *)
(* T = [c: cache, st: stats, id: request id, rq: the request's state]    *)
(* ------------------------------------------------------------------ *)
\* `${sheetName}-${range}` of the requests made
SheetKeys == {"Sheet1-A:C", "Sheet2-A:C"}

\* values of `${sheetName}!${range}` when the spreadsheet has content c
SheetValues(key, c) ==
  IF c = 0 THEN << >>
  ELSE << <<Str(<<"k">>), Str(<<"v">>)>>,
          <<Str(IF key = "Sheet1-A:C" THEN <<"1">> ELSE <<"2">>), Num(NatToStr(c))>> >>

\* a request not yet received; gp is the state of its fetch
NoCall ==
  [kind |-> "none", key |-> "", pc |-> "idle", gp |-> "off", gq |-> "off",
   rf |-> "off", resp |-> NULL, calls |-> 0]

\* fetchFromGoogleSheets after its await: the counters, or errors++ and throw
fetchFromGoogleSheets(T, ok) ==
  IF ok
  THEN [T EXCEPT !.st.apiCalls = @ + 1, !.st.lastApiCall = Val(now),
                 !.rq.calls = @ + 1, !.rq.gp = "ok"]
  ELSE [T EXCEPT !.st.errors = @ + 1, !.rq.gp = "err"]

\* GET /api/sheets/:sheetName after cache.get(cacheKey)
sheetsCached(T) ==
  IF T.c[T.rq.key] # NULL
  THEN Respond([T EXCEPT !.st.cacheHits = @ + 1],
               [data |-> T.c[T.rq.key].v, cached |-> TRUE,
                cacheExpiry |-> T.c[T.rq.key].t])
  ELSE [T EXCEPT !.st.cacheMisses = @ + 1, !.rq.gp = "fetch"]

\* GET /api/sheets/:sheetName up to its await of fetchFromGoogleSheets
sheetsRoute(T, key) ==
  sheetsCached(cacheGet([T EXCEPT !.st.totalRequests = @ + 1, !.rq.key = key], key))

\* GET /api/sheets/:sheetName after fetchFromGoogleSheets: cache.set and the
\* answer, or the 500 of the catch
sheetsFetched(T, data) ==
  IF T.rq.gp = "ok"
  THEN Respond(cacheSet(T, T.rq.key, data),
               [data |-> data, cached |-> FALSE, cacheExpiry |-> now + StdTTL])
  ELSE [T EXCEPT !.rq.pc = "done", !.rq.resp = [code |-> 500, body |-> NULL]]

\* POST /api/cache/clear: cache.flushAll()
cacheClear(T) ==
  Respond([T EXCEPT !.c = [k \in DOMAIN T.c |-> NULL]],
          [message |-> "Cache cleared successfully"])

InitSheets ==
  /\ config \in {"service", "apikey"}
  /\ sheet \in Contents
  /\ now = 0
  /\ SNAPSHOT = SNAPSHOT0
  /\ stats = stats0
  /\ file = ABSENT
  /\ tmp = ABSENT
  /\ cache = [k \in SheetKeys |-> NULL]
  /\ req = [r \in 1..MaxCalls |-> NoCall]

\* request r arrives: requests are numbered as they come
ArrivesSheets(r) ==
  /\ r \in Reqs
  /\ Quiet
  /\ req[r].kind = "none"
  /\ r > 1 => req[r - 1].kind # "none"

BeginSheets(r, kind) == [MkTTL(r) EXCEPT !.rq.kind = kind, !.rq.pc = "wait"]

CommitSheets(r, T) ==
  /\ cache' = T.c
  /\ stats' = T.st
  /\ req' = [req EXCEPT ![r] = T.rq]
  /\ UNCHANGED <<config, sheet, now, SNAPSHOT, file, tmp>>

\* GET /api/sheets/:sheetName
GetSheet(r, key) ==
  /\ ArrivesSheets(r)
  /\ CommitSheets(r, sheetsRoute(BeginSheets(r, "sheet"), key))

\* the values.get of fetchFromGoogleSheets settles
SheetFetched(r, ok) ==
  /\ Quiet
  /\ req[r].gp = "fetch"
  /\ CommitSheets(r, sheetsFetched(fetchFromGoogleSheets(MkTTL(r), ok),
                                   SheetValues(req[r].key, sheet)))

\* POST /api/cache/clear
CacheClear(r) ==
  /\ ArrivesSheets(r)
  /\ CommitSheets(r, cacheClear(BeginSheets(r, "clear")))

\* res.json(...) of request r has written the answer
SheetAnswered(r) ==
  /\ req[r].resp # NULL
  /\ req' = [req EXCEPT ![r].resp = NULL]
  /\ UNCHANGED <<config, sheet, now, SNAPSHOT, stats, file, tmp, cache>>

NextSheets ==
  \/ \E r \in Reqs, key \in SheetKeys : GetSheet(r, key)
  \/ \E r \in Reqs, ok \in BOOLEAN : SheetFetched(r, ok)
  \/ \E r \in Reqs : CacheClear(r)
  \/ \E r \in Reqs : SheetAnswered(r)
  \/ EditSheet
  \/ Tick

SpecSheets == InitSheets /\ [][NextSheets]_vars

(* ------------------------------------------------------------------ *)
(* Generic sheet server: the properties                                  *)
(* ------------------------------------------------------------------ *)
\* request r is the first read of its key to arrive after a clear
FirstReadAfterClear(r) ==
  \E c \in Reqs :
    /\ c < r
    /\ req[c].kind = "clear"
    /\ \A m \in Reqs :
         (c < m /\ m < r) => ~(req[m].kind = "sheet" /\ req[m].key = req[r].key)

RECURSIVE FetchesUpTo(_)
\* the fetches that requests 1..n have made
FetchesUpTo(n) == IF n = 0 THEN 0 ELSE req[n].calls + FetchesUpTo(n - 1)

\* C10: a cache entry lives from the miss that created it until its TTL
\* elapses or the cache is cleared: a read answered from the cache is
\* answered from an entry that has not expired, the first read of a key
\* after POST /api/cache/clear is a miss that re-fetches from upstream,
\* and every upstream fetch is the fetch of a request (no background
\* refresh).
EntryLivesUntilExpiryOrClear ==
  /\ \A r \in Reqs :
       (req[r].kind = "sheet" /\ req[r].resp # NULL /\ req[r].resp.code = 200) =>
         /\ req[r].resp.body.cached => req[r].resp.body.cacheExpiry >= now
         /\ FirstReadAfterClear(r) =>
              (~req[r].resp.body.cached /\ req[r].calls = 1)
  /\ stats.apiCalls = FetchesUpTo(MaxCalls)

(* ------------------------------------------------------------------ *)
(* The joins of GET /api/schools (src/server.js, lines 645-674 and       *)
(* 846-878) over the sheets a spreadsheet can hold: the Snapshot holds   *)
(* the Profile and the Performance dataset that GET /api/profile and     *)
(* GET /api/performance stored, and no joined view yet.                  *)
(* ------------------------------------------------------------------ *)
\* the School IDs of the rows
JoinIds == {<<"1">>, <<"2">>, <<"3">>, <<"4">>}

\* the School ID columns a sheet can have: at most MaxRows ids, repeats allowed
IdColumns == UNION {[1..n -> JoinIds] : n \in 0..MaxRows}

\* the values of the profile sheet whose id column is ids: row n is named Pn
ProfileSheet(ids) ==
  << <<HdrSchoolId, HdrName>> >> \o
  [n \in 1..Len(ids) |-> <<Str(ids[n]), Str(<<"P">> \o NatToStr(n))>>]

\* the data rows of the performance sheet whose id column is ids
PerfSheet(ids) ==
  [n \in 1..Len(ids) |-> <<Str(ids[n]), Str(<<"Q">> \o NatToStr(n))>>]

\* the startup callback has run and has ended
StartupDone == [NoReq EXCEPT !.kind = "startup", !.pc = "done"]

InitJoin ==
  /\ config = "apikey"
  /\ sheet = 1
  /\ now = 0
  /\ \E pids \in IdColumns, qids \in IdColumns :
       SNAPSHOT = [SNAPSHOT0 EXCEPT
                     !.profile = ProfileDataset(ProfileSheet(pids), -1),
                     !.performance = PerfDataset(PerfHeaderValues(1), PerfSheet(qids), -1)]
  /\ stats = stats0
  /\ file = ABSENT
  /\ tmp = ABSENT
  /\ cache = << >>
  /\ req = [r \in 0..MaxReq |-> IF r = 0 THEN StartupDone ELSE NoReq]

NextJoin ==
  \/ \E r \in Reqs, q \in Queries : ApiSchools(r, q)
  \/ \E r \in Reqs, q \in Queries : ApiSchoolsOuter(r, q)
  \/ \E r \in Reqs : Answered(r)

SpecJoin == InitJoin /\ [][NextJoin]_vars

(* ------------------------------------------------------------------ *)
(* The joins: the properties                                             *)
(* ------------------------------------------------------------------ *)
\* the School IDs of the rows of a dataset, and the first row of each
KeysOf(dataset) ==
  {dataset.rows[n][1].s : n \in 1..Len(dataset.rows)}
FirstRowOf(dataset, id) ==
  MinOr({n \in 1..Len(dataset.rows) : dataset.rows[n][1].s = id}, 0)

\* the School ID of record n of a joined result
JoinedId(body, n) == body.data[n][SchoolIdKey].s

\* body has exactly one record per key of K and no other record
OneRecordPerKey(body, K) ==
  /\ Len(body.data) = Cardinality(K)
  /\ {JoinedId(body, n) : n \in 1..Len(body.data)} = K

\* the records of body come in the order in which the profile sheet first
\* has their keys
InProfileOrder(body, profile) ==
  \A n, m \in 1..Len(body.data) :
    n < m => FirstRowOf(profile, JoinedId(body, n)) < FirstRowOf(profile, JoinedId(body, m))

\* C20: inner join: the joined result has exactly one record per key present
\* in both indices and none for any other key, ordered by the insertion
\* order of the Profile index's keys, and count is the size of that
\* intersection.
InnerJoinIsTheIntersection ==
  \A r \in Reqs :
    (req[r].kind = "schools" /\ req[r].resp # NULL) =>
      /\ req[r].resp.code = 200
      /\ OneRecordPerKey(req[r].resp.body,
                         KeysOf(SNAPSHOT.profile) \cap KeysOf(SNAPSHOT.performance))
      /\ InProfileOrder(req[r].resp.body, SNAPSHOT.profile)
      /\ req[r].resp.body.count =
           Cardinality(KeysOf(SNAPSHOT.profile) \cap KeysOf(SNAPSHOT.performance))

\* C20 happens: keys 1,2,3 joined with keys 3,2,4 give count 2 with the
\* keys 2,3 in the order of the profile.
InnerJoinOfThreeAndThree ==
  \E r \in Reqs :
    /\ req[r].kind = "schools"
    /\ req[r].resp # NULL
    /\ SNAPSHOT.profile.rows = Tail(ProfileSheet(<< <<"1">>, <<"2">>, <<"3">> >>))
    /\ SNAPSHOT.performance.rows = PerfSheet(<< <<"3">>, <<"2">>, <<"4">> >>)
    /\ req[r].resp.body.count = 2
    /\ JoinedId(req[r].resp.body, 1) = <<"2">>
    /\ JoinedId(req[r].resp.body, 2) = <<"3">>

\* the last record of a dataset whose School ID (its first column) is id
LastRowOf(dataset, id) ==
  MaxOr({n \in 1..Len(dataset.rows) : dataset.rows[n][1].s = id}, 0)
LastRecordOf(dataset, id) == dataset.data[LastRowOf(dataset, id)]

\* rec has the fields of the record side and "School ID", each field of side
\* other than "School ID" with the value side gives it
OnlyFieldsOf(rec, side) ==
  /\ DOMAIN rec = (DOMAIN side) \cup {SchoolIdKey}
  /\ \A k \in (DOMAIN side) \ {SchoolIdKey} : rec[k] = side[k]

\* record n of an outer join whose key one sheet alone has, has that sheet's
\* fields only
OneSidedRecord(body, n, profile, performance) ==
  /\ JoinedId(body, n) \notin KeysOf(performance) =>
       OnlyFieldsOf(body.data[n], LastRecordOf(profile, JoinedId(body, n)))
  /\ JoinedId(body, n) \notin KeysOf(profile) =>
       OnlyFieldsOf(body.data[n], LastRecordOf(performance, JoinedId(body, n)))

\* C21: outer join: the result has exactly one record per key in the union
\* of both key sets; a key present only in Profile yields a record with only
\* Profile fields (plus "School ID"), a key present only in Performance
\* yields a record with only Performance fields (plus "School ID"), and
\* count equals the size of the union.
OuterJoinIsTheUnion ==
  \A r \in Reqs :
    (req[r].kind = "schoolsOuter" /\ req[r].resp # NULL) =>
      /\ req[r].resp.code = 200
      /\ OneRecordPerKey(req[r].resp.body,
                         KeysOf(SNAPSHOT.profile) \cup KeysOf(SNAPSHOT.performance))
      /\ req[r].resp.body.count =
           Cardinality(KeysOf(SNAPSHOT.profile) \cup KeysOf(SNAPSHOT.performance))
      /\ \A n \in 1..Len(req[r].resp.body.data) :
           OneSidedRecord(req[r].resp.body, n, SNAPSHOT.profile, SNAPSHOT.performance)

\* C21 happens: the outer join of the keys 1,2 with the keys 2,3 has three
\* records; the first has the two Profile fields, the third the two
\* Performance fields and "School ID".
OuterJoinOfTwoAndTwo ==
  \E r \in Reqs :
    /\ req[r].kind = "schoolsOuter"
    /\ req[r].resp # NULL
    /\ SNAPSHOT.profile.rows = Tail(ProfileSheet(<< <<"1">>, <<"2">> >>))
    /\ SNAPSHOT.performance.rows = PerfSheet(<< <<"2">>, <<"3">> >>)
    /\ req[r].resp.body.count = 3
    /\ DOMAIN req[r].resp.body.data[1] = {SchoolIdKey, HdrName.s}
    /\ JoinedId(req[r].resp.body, 3) = <<"3">>
    /\ Cardinality(DOMAIN req[r].resp.body.data[3]) = 3
    /\ HdrName.s \notin DOMAIN req[r].resp.body.data[3]

(* ------------------------------------------------------------------ *)
(* The merges: GET /api/schools over sheets whose headers and key cells  *)
(* vary                                                                  *)
(* ------------------------------------------------------------------ *)
\* data rows of the profile sheet and of the performance sheet that the merge
\* specification joins
MaxMergeRows == 2
MaxMergePerfRows == 1

\* the label buildPerfFlatHeaders gives the second column of PerfHeaderValues
ScoreLabel == <<"R","e","s"," ","|"," ","S","c","o","r","e"," ","|"," ","2","0","2","1">>

\* the header rows the profile sheet can have
MergeProfileHeaders ==
  {<<HdrSchoolId, HdrName>>,
   <<Str(<<" ","S","C","H","O","O","L"," ","i","d">>), HdrSchoolId>>,
   <<Str(<<"i","d">>), Str(<<"n","a","m","e">>)>>,
   <<Str(<<"s","c","h","o","o","l","i","d">>), Str(<<"n","a","m","e">>)>>,
   <<Str(<<"s","c","h","o","o","l","i","d">>), Str(ScoreLabel)>>,
   <<HdrName, HdrSchoolId, Str(<<"R","e","g","i","o","n">>)>>}

\* the cells the first column of a data row can have: the string "7", the
\* same with a trailing blank, the number 7, an empty cell
MergeKeys == {Str(<<"7">>), Str(<<"7"," ">>), Num(<<"7">>), EmptyStr}

\* the data rows of a profile sheet: a key cell and a cell that is empty or "A"
MergeProfileRows ==
  UNION {[1..n -> {<<k, c>> : k \in MergeKeys, c \in {EmptyStr, Str(<<"A">>)}}] :
           n \in 0..MaxMergeRows}

\* the data rows of a performance sheet: row n has a key cell and the cell Qn
MergePerfRows ==
  UNION {{[n \in 1..Len(ks) |-> <<ks[n], Str(<<"Q">> \o NatToStr(n))>>] :
            ks \in [1..m -> MergeKeys]} : m \in 0..MaxMergePerfRows}

InitMerge ==
  /\ config = "apikey"
  /\ sheet = 1
  /\ now = 0
  /\ \E h \in MergeProfileHeaders, prows \in MergeProfileRows, qrows \in MergePerfRows :
       SNAPSHOT = [SNAPSHOT0 EXCEPT
                     !.profile = ProfileDataset(<<h>> \o prows, -1),
                     !.performance = PerfDataset(PerfHeaderValues(1), qrows, -1)]
  /\ stats = stats0
  /\ file = ABSENT
  /\ tmp = ABSENT
  /\ cache = << >>
  /\ req = [r \in 0..MaxReq |-> IF r = 0 THEN StartupDone ELSE NoReq]

SpecMerge == InitMerge /\ [][NextJoin]_vars

(* ------------------------------------------------------------------ *)
(* The merges: the properties                                            *)
(* ------------------------------------------------------------------ *)
\* the records of a dataset whose value at the field named kf is neither
\* undefined nor ""
KeyedRows(dataset, kf) ==
  {n \in 1..Len(dataset.data) :
     kf \in DOMAIN dataset.data[n] /\ dataset.data[n][kf] # EmptyStr}

\* the keyed index of a dataset over the field named kf, as a function:
\* String(value) of that field to the last record that has it
LastByKeyField(dataset, kf, rows) ==
  [id \in {dataset.data[n][kf].s : n \in rows} |->
     dataset.data[MaxOr({n \in rows : dataset.data[n][kf].s = id}, 0)]]

\* the keyed index of a dataset, empty when it has no key column
LastByKey(dataset) ==
  IF findSchoolIdHeader(dataset.headers) = NULL THEN EmptyObj
  ELSE LastByKeyField(dataset, findSchoolIdHeader(dataset.headers).v,
                      KeyedRows(dataset, findSchoolIdHeader(dataset.headers).v))

\* the record index has for id, {} when it has none
RecordOf(index, id) == IF id \in DOMAIN index THEN index[id] ELSE EmptyObj

\* request r of GET /api/schools has its answer
JoinAnswered(r) ==
  /\ req[r].kind \in {"schools", "schoolsOuter"}
  /\ req[r].resp # NULL
  /\ req[r].resp.code = 200

\* rec has the value of q at every field of q and the value of p at every
\* field of p alone, over the fields that satisfy Holds
PerformanceWins(rec, p, q, Holds(_, _, _)) ==
  /\ \A k \in DOMAIN q : Holds(k, p, q) => (k \in DOMAIN rec /\ rec[k] = q[k])
  /\ \A k \in (DOMAIN p) \ (DOMAIN q) :
       Holds(k, p, q) => (k \in DOMAIN rec /\ rec[k] = p[k])

\* every record of data is PerformanceWins of the two records some key has
\* in the indices P and Q
MergedFrom(data, P, Q, Holds(_, _, _)) ==
  \A n \in 1..Len(data) :
    \E id \in (DOMAIN P) \cup (DOMAIN Q) :
      PerformanceWins(data[n], RecordOf(P, id), RecordOf(Q, id), Holds)

\* every record of every answered join is merged from the two datasets
JoinedRecordsMerge(Holds(_, _, _)) ==
  \A r \in Reqs :
    JoinAnswered(r) =>
      MergedFrom(req[r].resp.body.data, LastByKey(SNAPSHOT.profile),
                 LastByKey(SNAPSHOT.performance), Holds)

\* the merge gives field k a truthy value, or k is not "School ID"
KeptByTheMerge(k, p, q) ==
  k # SchoolIdKey \/ Truthy(IF k \in DOMAIN q THEN q[k] ELSE p[k])

\* C22 as the specification states it: for every joined record, each field
\* defined by the Performance record has the Performance value, and each
\* field defined only by the Profile record has the Profile value.
EveryFieldMergedAsStated == JoinedRecordsMerge(LAMBDA k, p, q : TRUE)

\* C22: for every joined record, each field defined by the Performance
\* record has the Performance value, and each field defined only by the
\* Profile record has the Profile value (Performance wins on every
\* field-name collision), save for a "School ID" that the merge leaves
\* empty, which the join fills in.
PerformanceWinsOnCollision == JoinedRecordsMerge(KeptByTheMerge)

\* C22 happens: the profile sheet has a column named as the Score column of
\* the performance sheet, a school has "A" there and Q1 in the performance
\* sheet, and the joined record has Q1 there and the profile's key field.
CollidingFieldJoined ==
  \E r \in Reqs :
    /\ JoinAnswered(r)
    /\ SNAPSHOT.profile.headers = <<Str(<<"s","c","h","o","o","l","i","d">>), Str(ScoreLabel)>>
    /\ SNAPSHOT.profile.rows = << <<Str(<<"7">>), Str(<<"A">>)>> >>
    /\ Len(req[r].resp.body.data) = 1
    /\ req[r].resp.body.data[1][ScoreLabel] = Str(<<"Q","1">>)
    /\ req[r].resp.body.data[1][<<"s","c","h","o","o","l","i","d">>] = Str(<<"7">>)

\* the merge of p and q leaves "School ID" missing or empty
LeftWithoutSchoolId(p, q) ==
  SchoolIdKey \notin (DOMAIN p) \cup (DOMAIN q) \/ ~KeptByTheMerge(SchoolIdKey, p, q)

\* the value "School ID" is filled with: the Profile record's value at the
\* key field hp of Profile, else the Performance record's value at the key
\* field hq of Performance, else the join key
FillAsStated(id, p, q, hp, hq) ==
  IF hp # NULL /\ hp.v \in DOMAIN p THEN p[hp.v]
  ELSE IF hq # NULL /\ hq.v \in DOMAIN q THEN q[hq.v]
  ELSE Str(id)

\* rec is the joined record of key id: its "School ID" is the fill when the
\* merge of p and q leaves it missing or empty
SchoolIdOf(rec, id, p, q, hp, hq) ==
  /\ PerformanceWins(rec, p, q, KeptByTheMerge)
  /\ LeftWithoutSchoolId(p, q) => rec[SchoolIdKey] = FillAsStated(id, p, q, hp, hq)

\* every record of data has a non-empty "School ID", filled as stated
SchoolIdsOf(data, P, Q, hp, hq) ==
  \A n \in 1..Len(data) :
    /\ SchoolIdKey \in DOMAIN data[n]
    /\ data[n][SchoolIdKey].s # << >>
    /\ \E id \in (DOMAIN P) \cup (DOMAIN Q) :
         SchoolIdOf(data[n], id, RecordOf(P, id), RecordOf(Q, id), hp, hq)

\* C23: every record of every join result (inner or outer) has a non-empty
\* "School ID" field: when the merge leaves it missing or empty it is filled
\* from the Profile record's value at Profile's detected key column, else
\* from the Performance record's value at Performance's detected key column,
\* else with the join key string.
EveryJoinedRecordHasSchoolId ==
  \A r \in Reqs :
    JoinAnswered(r) =>
      SchoolIdsOf(req[r].resp.body.data, LastByKey(SNAPSHOT.profile),
                  LastByKey(SNAPSHOT.performance),
                  findSchoolIdHeader(SNAPSHOT.profile.headers),
                  findSchoolIdHeader(SNAPSHOT.performance.headers))

\* C23 happens: an outer join of a Profile record whose "School ID" is empty
\* and whose key column has "7", and of a Performance record of key "7 ":
\* the first record is filled from Profile's key column, the second from
\* Performance's.
SchoolIdFilledFromBothSides ==
  \E r \in Reqs :
    /\ JoinAnswered(r)
    /\ req[r].kind = "schoolsOuter"
    /\ SNAPSHOT.profile.headers = <<Str(<<" ","S","C","H","O","O","L"," ","i","d">>), HdrSchoolId>>
    /\ SNAPSHOT.profile.rows = << <<Str(<<"7">>), EmptyStr>> >>
    /\ SNAPSHOT.performance.rows = << <<Str(<<"7"," ">>), Str(<<"Q","1">>)>> >>
    /\ Len(req[r].resp.body.data) = 2
    /\ req[r].resp.body.data[1][SchoolIdKey] = Str(<<"7">>)
    /\ req[r].resp.body.data[2][SchoolIdKey] = Str(<<"7"," ">>)

\* a label that, trimmed and lower-cased, equals "school id" or "schoolid"
\* or contains both "school" and "id"
NamesSchoolId(label) ==
  \/ toLowerCase(trim(label)) \in {<<"s","c","h","o","o","l"," ","i","d">>, <<"s","c","h","o","o","l","i","d">>}
  \/ /\ includes(toLowerCase(trim(label)), <<"s","c","h","o","o","l">>)
     /\ includes(toLowerCase(trim(label)), <<"i","d">>)

\* i is what the key column locator is to return for headers
LocatesKeyColumn(headers, i) ==
  IF \E j \in 1..Len(headers) : NamesSchoolId(headers[j].s)
  THEN /\ i \in 0..(Len(headers) - 1)
       /\ NamesSchoolId(headers[i + 1].s)
       /\ \A j \in 0..(i - 1) : ~NamesSchoolId(headers[j + 1].s)
  ELSE i = -1

\* the three sequences of labels the specification gives as examples
LocatesTheExamples(headers, i) ==
  /\ headers = <<HdrName, HdrSchoolId, Str(<<"R","e","g","i","o","n">>)>> => i = 1
  /\ headers = <<Str(<<"s","c","h","o","o","l","i","d">>), Str(<<"n","a","m","e">>)>> => i = 0
  /\ headers = <<Str(<<"i","d">>), Str(<<"n","a","m","e">>)>> => i = -1

\* C24: key column locator: for every header sequence, findSchoolIdIndex
\* returns the lowest index whose label, trimmed and lower-cased, equals
\* "school id" or "schoolid" or contains both "school" and "id" as
\* substrings, and returns not-found (-1) exactly when no label does
\* (["Name","School ID","Region"] gives 1, ["schoolid","name"] gives 0,
\* ["id","name"] gives not-found).
KeyColumnIsTheFirstMatch ==
  \A r \in Reqs :
    JoinAnswered(r) =>
      /\ LocatesKeyColumn(req[r].p.headers, findSchoolIdIndex(req[r].p.headers))
      /\ LocatesTheExamples(req[r].p.headers, findSchoolIdIndex(req[r].p.headers))
      /\ LocatesKeyColumn(req[r].q.headers, findSchoolIdIndex(req[r].q.headers))

\* C24 happens: the profile sheet has the headers Name, School ID, Region
\* and the join has keyed its records by the second column.
SecondColumnLocated ==
  \E r \in Reqs :
    /\ JoinAnswered(r)
    /\ req[r].kind = "schoolsOuter"
    /\ req[r].p.headers = <<HdrName, HdrSchoolId, Str(<<"R","e","g","i","o","n">>)>>
    /\ findSchoolIdIndex(req[r].p.headers) = 1
    /\ req[r].p.rows = << <<Str(<<"7">>), Str(<<"A">>)>> >>
    /\ req[r].q.rows = << >>
    /\ Len(req[r].resp.body.data) = 1
    /\ req[r].resp.body.data[1][SchoolIdKey] = Str(<<"A">>)

\* a Map as the function from its keys to their values
MapAsFunction(m) == [k \in {m[n].k : n \in 1..Len(m)} |-> MapGet(m, k)]

\* m is the keyed index of dataset: empty when no key column is located,
\* else one entry per String(value) of the key field over the records where
\* that value is neither undefined nor "", each with the last such record
IsKeyedIndexOf(m, dataset) ==
  /\ findSchoolIdIndex(dataset.headers) < 0 => m = << >>
  /\ Len(m) = Cardinality({m[n].k : n \in 1..Len(m)})
  /\ MapAsFunction(m) = LastByKey(dataset)

\* C25: keyed index: for every dataset, toKeyedBySchoolId returns an empty
\* index when no key column is located; otherwise its key set is exactly the
\* set of String(value) over records whose key-field value is neither
\* undefined nor the empty string, and each key maps to the last record in
\* dataset order having that stringified key.
KeyedIndexHoldsLastRecordPerKey ==
  \A r \in Reqs :
    JoinAnswered(r) =>
      /\ IsKeyedIndexOf(toKeyedBySchoolId(req[r].p.data, req[r].p.headers), req[r].p)
      /\ IsKeyedIndexOf(toKeyedBySchoolId(req[r].q.data, req[r].q.headers), req[r].q)

\* C25 happens: the profile sheet has the key "7" twice, as a string and as
\* a number, the performance sheet has a row without a key, and the outer
\* join has one record, made of the second profile row.
LaterRecordKeyed ==
  \E r \in Reqs :
    /\ JoinAnswered(r)
    /\ req[r].kind = "schoolsOuter"
    /\ req[r].p.headers = <<HdrSchoolId, HdrName>>
    /\ req[r].p.rows = << <<Str(<<"7">>), EmptyStr>>, <<Num(<<"7">>), Str(<<"A">>)>> >>
    /\ req[r].q.rows = << <<EmptyStr, Str(<<"Q","1">>)>> >>
    /\ Len(toKeyedBySchoolId(req[r].p.data, req[r].p.headers)) = 1
    /\ toKeyedBySchoolId(req[r].q.data, req[r].q.headers) = << >>
    /\ Len(req[r].resp.body.data) = 1
    /\ req[r].resp.body.data[1][HdrName.s] = Str(<<"A">>)

\* every record of an inner join has the same string, character for
\* character, in the key field hp of Profile and in the key field hq of
\* Performance
SameKeyOnBothSides(data, hp, hq) ==
  \A n \in 1..Len(data) : data[n][hp.v].s = data[n][hq.v].s

\* the answer of kind to the indices P and Q has one record per key string
\* both have (inner join) or either has (outer join), key strings being
\* equal when they are the same characters
CountsExactKeys(kind, body, P, Q, hp, hq) ==
  IF kind = "schools"
  THEN /\ body.count = Cardinality((DOMAIN P) \cap (DOMAIN Q))
       /\ SameKeyOnBothSides(body.data, hp, hq)
  ELSE body.count = Cardinality((DOMAIN P) \cup (DOMAIN Q))

\* C30: join keys are compared exactly as stringified, without trimming:
\* records with key values "7" and "7 " produce two distinct index entries
\* and never join with each other, while the number 7 and the string "7"
\* produce the same key.
KeysJoinAsStringified ==
  \A r \in Reqs :
    JoinAnswered(r) =>
      CountsExactKeys(req[r].kind, req[r].resp.body,
                      LastByKey(req[r].p), LastByKey(req[r].q),
                      findSchoolIdHeader(req[r].p.headers),
                      findSchoolIdHeader(req[r].q.headers))

\* C30 happens: the profile sheet has the keys "7 " and the number 7, the
\* performance sheet the key "7": the inner join has one record, of the
\* number 7 with the string "7".
NumberJoinsStringNotBlank ==
  \E r \in Reqs :
    /\ JoinAnswered(r)
    /\ req[r].kind = "schools"
    /\ req[r].p.headers = <<HdrSchoolId, HdrName>>
    /\ req[r].p.rows = << <<Str(<<"7"," ">>), EmptyStr>>, <<Num(<<"7">>), Str(<<"A">>)>> >>
    /\ req[r].q.rows = << <<Str(<<"7">>), Str(<<"Q","1">>)>> >>
    /\ Len(toKeyedBySchoolId(req[r].p.data, req[r].p.headers)) = 2
    /\ req[r].resp.body.count = 1
    /\ req[r].resp.body.data[1][SchoolIdKey] = Num(<<"7">>)
    /\ req[r].resp.body.data[1][ScoreLabel] = Str(<<"Q","1">>)

(* ------------------------------------------------------------------ *)
(* The tables: GET /api/profile, /api/performance and                    *)
(* /api/performance/key over sheets of every shape, fetched on a miss    *)
(* ------------------------------------------------------------------ *)
\* columns of a header row and cells of a data row of the narrow sheets
MaxCols == 3
MaxCells == 3
\* columns of each header row of the narrow performance sheets
MaxPerfCols == 2
\* data rows of a sheet
MaxTableRows == 1

\* the sequences of at most n elements of S
SeqsUpTo(S, n) == UNION {[1..m -> S] : m \in 0..n}

\* the cells of a header row of the profile sheet, and of a data row
TableLabels == {EmptyStr, Str(<<"a">>), Str(<<"b">>), Str(<<"c">>)}
TableCells  == {EmptyStr, Str(<<"x">>), Str(<<"y">>)}

\* what "School Profile!A:AI" can hold: nothing, or a header row and rows
ProfileTables ==
  {<< >>} \cup
  {<<h>> \o rows : h \in SeqsUpTo(TableLabels, MaxCols),
                   rows \in SeqsUpTo(SeqsUpTo(TableCells, MaxCells), MaxTableRows)}

\* a header row of w columns named c0, c1, ... with School ID at the 0-based
\* column k, if it has one
WideHeader(w, k) ==
  [i \in 1..w |-> IF i - 1 = k THEN HdrSchoolId ELSE Str(<<"c">> \o NatToStr(i - 1))]

\* a data row of the cells v0, v1, ... up to len
WideRow(len) == [i \in 1..len |-> Str(<<"v">> \o NatToStr(i - 1))]

\* the widths of the wide sheets, around the columns AB and AU, the columns
\* School ID can be at (-1: nowhere), and the lengths of their rows
WideWidths   == {27, 28, 40, 47, 50}
WideKeyCols  == {-1, 0, 30}
WideLengths  == {0, 1, 30, 50}

\* what "School Performance!1:3" can hold: three narrow rows, or a wide
\* second row between two empty ones
PerfHeaderTables ==
  {<<h1, h2, h3>> : h1 \in SeqsUpTo({EmptyStr, Str(<<"A">>)}, MaxPerfCols),
                    h2 \in SeqsUpTo({EmptyStr, Str(<<"A">>)}, MaxPerfCols),
                    h3 \in SeqsUpTo({EmptyStr, Str(<<"A">>)}, MaxPerfCols)}
  \cup {<< << >>, WideHeader(w, k), << >> >> : w \in WideWidths, k \in WideKeyCols}

\* what "School Performance!4:100000" can hold
PerfDataTables ==
  SeqsUpTo(SeqsUpTo(TableCells, MaxCells), MaxTableRows)
  \cup {<<WideRow(len)>> : len \in WideLengths}

\* the startup callback found no snapshot file and its refresh failed
StartupFailed == [StartupDone EXCEPT !.rf = "err", !.calls = 1]

InitTables ==
  /\ config = "apikey"
  /\ sheet = 1
  /\ now = 1
  /\ SNAPSHOT = SNAPSHOT0
  /\ stats = [stats0 EXCEPT !.apiCalls = 1, !.lastApiCall = Val(0)]
  /\ file = ABSENT
  /\ tmp = ABSENT
  /\ cache = << >>
  /\ req = [r \in 0..MaxReq |-> IF r = 0 THEN StartupFailed ELSE NoReq]

\* the requests whose sub-task `task` awaits the answer `what` of the network
Awaiting(task, what) == {r \in Reqs : req[r][task] = what}

NextTables ==
  \/ \E r \in Reqs : ApiProfile(r)
  \/ \E r \in Reqs : ApiPerformance(r)
  \/ \E r \in Reqs : ApiPerformanceKey(r)
  \/ \E r \in Awaiting("gp", "fetch"), values \in ProfileTables :
       ProfileFetched(r, TRUE, values)
  \/ \E r \in Awaiting("gq", "fetchH"), values \in PerfHeaderTables :
       PerformanceHeadersFetched(r, TRUE, values)
  \/ \E r \in Awaiting("gq", "fetchD"), values \in PerfDataTables :
       PerformanceDataFetched(r, TRUE, values)
  \/ \E r \in Reqs : Answered(r)

SpecTables == InitTables /\ [][NextTables]_vars

(* ------------------------------------------------------------------ *)
(* The tables: the properties                                            *)
(* ------------------------------------------------------------------ *)
\* request r of one of kinds has its answer, a dataset
Served(r, kinds) ==
  /\ req[r].kind \in kinds
  /\ req[r].resp # NULL
  /\ req[r].resp.code = 200

\* the data rows of a getPerformanceFull of request r arrive in this step
\* and make its dataset
PerformanceBuilt(r) == req[r].gq = "fetchD" /\ req'[r].gq = "ok"

\* the cell of the header row h at the 0-based column i is empty or missing
EmptyOrMissing(h, i) == i >= Len(h) \/ h[i + 1].s = << >>

\* every column of flat whose cells in all of headerRows are empty or
\* missing is labelled col_<index>
BlankColumnsArePlaceholders(headerRows, flat) ==
  \A i \in 0..(Len(flat) - 1) :
    (\A k \in 1..Len(headerRows) : EmptyOrMissing(headerRows[k], i))
      => flat[i + 1].s = ColLabel(i)

\* C26: three-row header flattening: a column whose three header cells are
\* all empty or missing gets the label col_<index> (its 0-based column
\* index).
BlankColumnGetsPlaceholder ==
  [][\A r \in Reqs :
       PerformanceBuilt(r) =>
         BlankColumnsArePlaceholders(req[r].hdr, req'[r].q.headers)]_vars

\* the width of the widest of headerRows
MaxWidth(headerRows) == MaxOr({Len(headerRows[k]) : k \in 1..Len(headerRows)}, 0)

\* a dataset has a non-empty label at every position of its headers, and
\* the field names of each of its records are exactly these labels
LabelledAtEveryColumn(dataset) ==
  /\ \A i \in 1..Len(dataset.headers) : dataset.headers[i].s # << >>
  /\ \A n \in 1..Len(dataset.data) :
       DOMAIN dataset.data[n] =
         {dataset.headers[i].s : i \in 1..Len(dataset.headers)}

\* C27: for every dataset served (Profile with its single header row,
\* Performance with its three header rows), the headers sequence has length
\* equal to the maximum width of the supplied header rows and has a
\* non-empty label at every position, and each record's field names are
\* exactly the labels of that headers sequence.
ServedHeadersLabelEveryColumn ==
  /\ [](\A r \in Reqs :
          Served(r, {"profile", "performance"}) =>
            LabelledAtEveryColumn(req[r].resp.body))
  /\ [][\A r \in Reqs :
          PerformanceBuilt(r) =>
            Len(req'[r].q.headers) = MaxWidth(req[r].hdr)]_vars

\* the label of the 0-based column i of headers: the header cell, or
\* col_<index> for an empty one
LabelAt(headers, i) ==
  IF headers[i + 1].s = << >> THEN ColLabel(i) ELSE headers[i + 1].s

\* rec has at the label of column i the cell i of row, "" when row is short
ZippedAt(rec, row, headers, i) ==
  /\ LabelAt(headers, i) \in DOMAIN rec
  /\ rec[LabelAt(headers, i)] = IF i < Len(row) THEN row[i + 1] ELSE EmptyStr

\* no later column of headers has the label of column i
LastOfItsLabel(headers, i) ==
  \A j \in (i + 1)..(Len(headers) - 1) : LabelAt(headers, j) # LabelAt(headers, i)

\* rec is row zipped with headers over the columns that satisfy Counts, and
\* has no other field than the labels of headers
Zipped(rec, row, headers, Counts(_, _)) ==
  /\ \A i \in 0..(Len(headers) - 1) :
       Counts(headers, i) => ZippedAt(rec, row, headers, i)
  /\ DOMAIN rec = {LabelAt(headers, i) : i \in 0..(Len(headers) - 1)}

\* every record of every dataset served is its row zipped with the headers
RowsZipped(Counts(_, _)) ==
  \A r \in Reqs :
    Served(r, {"profile", "performance", "perfkey"}) =>
      /\ Len(req[r].resp.body.data) = Len(req[r].resp.body.rows)
      /\ \A n \in 1..Len(req[r].resp.body.rows) :
           Zipped(req[r].resp.body.data[n], req[r].resp.body.rows[n],
                  req[r].resp.body.headers, Counts)

\* C28 as the specification states it: for every header of length n and
\* every raw row, the record has the value row[i] at label i for each i
\* below both n and the row's length, the empty string at every label i
\* from the row's length up to n-1, and no field for any cell at position n
\* or beyond.
RowsZippedAtEveryLabel == RowsZipped(LAMBDA headers, i : TRUE)

\* C28: row materializer: for every header of length n and every raw row,
\* the record has the value row[i] at label i for each i below both n and
\* the row's length that is the last column to carry its label, the empty
\* string at every such label i from the row's length up to n-1, and no
\* field for any cell at position n or beyond (header length 3 and row
\* ["x"] give {h0:"x", h1:"", h2:""}).
RowsZippedLastLabelWins == RowsZipped(LastOfItsLabel)

\* C28 happens: the headers a, b, c and the row ["x"] are served as the
\* record {a: "x", b: "", c: ""}.
ShortRowPadded ==
  \E r \in Reqs :
    /\ Served(r, {"profile"})
    /\ req[r].resp.body.headers = <<Str(<<"a">>), Str(<<"b">>), Str(<<"c">>)>>
    /\ req[r].resp.body.rows = << <<Str(<<"x">>)>> >>
    /\ DOMAIN req[r].resp.body.data[1] = {<<"a">>, <<"b">>, <<"c">>}
    /\ req[r].resp.body.data[1][<<"a">>] = Str(<<"x">>)
    /\ req[r].resp.body.data[1][<<"b">>] = EmptyStr
    /\ req[r].resp.body.data[1][<<"c">>] = EmptyStr

\* the 0-based columns GET /api/performance/key selects of a sheet of width
\* columns whose key column is k (-1: none): k, then AB (27) to AU (46)
SelectedColumns(k, width) ==
  (IF k >= 0 THEN <<k>> ELSE << >>) \o
  [n \in 1..(IF width > 27 THEN Min2(46, width - 1) - 26 ELSE 0) |-> 26 + n]

\* body is dataset restricted to the columns sel: the headers of these
\* columns, and per row one cell per column, "" where the row is short
RestrictedTo(body, dataset, sel) ==
  /\ body.headers = [n \in 1..Len(sel) |-> dataset.headers[sel[n] + 1]]
  /\ Len(body.rows) = Len(dataset.rows)
  /\ \A m \in 1..Len(body.rows) :
       body.rows[m] =
         [n \in 1..Len(sel) |->
            IF sel[n] < Len(dataset.rows[m]) THEN dataset.rows[m][sel[n] + 1]
            ELSE EmptyStr]

\* a1ToIndex maps A to 0, Z to 25, AA to 26, AB to 27 and AU to 46
LettersToIndices ==
  /\ a1ToIndex(<<"A">>) = 0
  /\ a1ToIndex(<<"Z">>) = 25
  /\ a1ToIndex(<<"A","A">>) = 26
  /\ a1ToIndex(<<"A","B">>) = 27
  /\ a1ToIndex(<<"A","U">>) = 46

\* C29: GET /api/performance/key returns the Performance dataset restricted
\* to the located key column followed by the columns lettered AB through AU
\* (0-based indices 27 to 46, clipped to the header width), where a1ToIndex
\* maps spreadsheet letters to 0-based indices (A=0, Z=25, AA=26, AB=27,
\* AU=46); each output row has one cell per selected column, empty string
\* where the source row is short.
KeyColumnsAreKeyThenABtoAU ==
  \A r \in Reqs :
    Served(r, {"perfkey"}) =>
      /\ LettersToIndices
      /\ RestrictedTo(req[r].resp.body, req[r].q,
                      SelectedColumns(findSchoolIdIndex(req[r].q.headers),
                                      Len(req[r].q.headers)))

\* C29 happens: a sheet of 50 columns with School ID at column 30 and a row
\* of 30 cells is answered with 21 columns, School ID first, then AB.., and
\* the row has v27, v28, v29 and empty cells.
WideSheetRestricted ==
  \E r \in Reqs :
    /\ Served(r, {"perfkey"})
    /\ Len(req[r].q.headers) = 50
    /\ findSchoolIdIndex(req[r].q.headers) = 30
    /\ req[r].q.rows = <<WideRow(30)>>
    /\ Len(req[r].resp.body.headers) = 21
    /\ req[r].resp.body.headers[1].s = <<"|"," ","S","c","h","o","o","l"," ","I","D"," ","|">>
    /\ req[r].resp.body.headers[21].s = <<"|"," ","c","4","6"," ","|">>
    /\ req[r].resp.body.rows[1] =
         <<EmptyStr, Str(<<"v","2","7">>), Str(<<"v","2","8">>), Str(<<"v","2","9">>)>> \o
         [n \in 1..17 |-> EmptyStr]

(* ------------------------------------------------------------------ *)
(* The Snapshot as a whole: its joined view against its two datasets,   *)
(* its provenance fields, and the counters (server.js 522-563, 610-720).*)
(* ------------------------------------------------------------------ *)
SnapshotFull ==
    /\ SNAPSHOT.profile # NULL
    /\ SNAPSHOT.performance # NULL
    /\ SNAPSHOT.joinedMatched # NULL

\* C31: in snapshot mode, whenever the Snapshot's profile, performance and
\* joinedMatched are all populated, joinedMatched is the inner join of the
\* Snapshot's current profile and performance.
JoinedIsJoinOfSnapshot ==
    SnapshotFull =>
        SNAPSHOT.joinedMatched = InnerJoin(SNAPSHOT.profile, SNAPSHOT.performance)

\* a refreshAll has committed in this run
RefreshHasCommitted == \E r \in Procs : req[r].rf = "ok"

\* this step is the commit of a refreshAll
RefreshCommits == \E r \in Procs : req[r].rf # "ok" /\ req'[r].rf = "ok"

\* this step is POST /admin/load
LoadStep == \E r \in Reqs : req[r].kind = "none" /\ req'[r].kind = "load"

\* two values of a dataset field hold the same headers, rows and records
SameValues(a, b) ==
  \/ a = NULL /\ b = NULL
  \/ /\ a # NULL
     /\ b # NULL
     /\ a.headers = b.headers
     /\ a.rows = b.rows
     /\ a.data = b.data

\* C32: a dataset read that began fetching before a refresh committed never
\* overwrites a Snapshot field written by that refresh: once a refreshAll
\* has committed, every step that is neither the commit of a refresh nor a
\* load leaves profile, performance and joinedMatched as they are.
CommittedSnapshotStays ==
  [][(RefreshHasCommitted /\ ~RefreshCommits /\ ~LoadStep)
       => /\ SameValues(SNAPSHOT'.profile, SNAPSHOT.profile)
          /\ SameValues(SNAPSHOT'.performance, SNAPSHOT.performance)
          /\ SNAPSHOT'.joinedMatched = SNAPSHOT.joinedMatched]_vars

\* C36: in snapshot mode, whenever a dataset field of the Snapshot (profile,
\* performance or joinedMatched) is populated, lastUpdated and lastReason
\* are both set (non-null).
PopulatedSnapshotHasProvenance ==
  (\/ SNAPSHOT.profile # NULL
   \/ SNAPSHOT.performance # NULL
   \/ SNAPSHOT.joinedMatched # NULL)
  => (SNAPSHOT.lastUpdated # NULL /\ SNAPSHOT.lastReason # NULL)

(* ------------------------------------------------------------------ *)
(* TTL variant: the cached joined view against the cached datasets       *)
(* (src/unnamed/part_001, 135-233)                                       *)
(* ------------------------------------------------------------------ *)
\* cache.get(key) would find the entry: it was set and has not expired
Present(key) == cache[key] # NULL /\ cache[key].t >= now

\* C33: in TTL-cache mode, whenever the cached joined view and the cached
\* profile and performance datasets are all present, the cached joined view
\* is the join of the cached profile and performance datasets.
CachedJoinIsJoinOfCached ==
  (/\ Present("joined_full_matched")
   /\ Present("profile_full")
   /\ Present("performance_full"))
  => cache["joined_full_matched"].v
       = InnerJoin(cache["profile_full"].v, cache["performance_full"].v)

(* ------------------------------------------------------------------ *)
(* The counters                                                          *)
(* ------------------------------------------------------------------ *)
\* C34: in every reachable state totalRequests = cacheHits + cacheMisses:
\* each dataset accessor call increments totalRequests and exactly one of
\* cacheHits and cacheMisses, and no other operation, load from disk
\* included, breaks the equality.
RequestsAreHitsPlusMisses ==
  stats.totalRequests = stats.cacheHits + stats.cacheMisses

\* C35: totalRequests, cacheHits, cacheMisses, apiCalls and errors never
\* decrease: in every step each counter is greater than or equal to its
\* previous value.
CountersNeverDecrease ==
  [][/\ stats'.totalRequests >= stats.totalRequests
     /\ stats'.cacheHits >= stats.cacheHits
     /\ stats'.cacheMisses >= stats.cacheMisses
     /\ stats'.apiCalls >= stats.apiCalls
     /\ stats'.errors >= stats.errors]_vars

(* ------------------------------------------------------------------ *)
(* Snapshot variant: the read-only routes GET /health, GET /stats and    *)
(* GET /admin/status (server.js 744-747, 775-787), and a server that     *)
(* answers two requests, so that a save or a load follows a read.        *)
(* ------------------------------------------------------------------ *)
MaxStatusReq == 2

\* snapshotFileInfo(): whether SNAPSHOT_FILE exists
snapshotFileInfo(M) == [exists |-> M.f # ABSENT]

\* `x?.data?.length || 0` and `x?.count || 0`
LengthOrZero(x) == IF x = NULL THEN 0 ELSE Len(x.data)
CountOrZero(x) == IF x = NULL THEN 0 ELSE x.count

\* app.get("/health"): { ok: true, time }
getHealth(M, time) == Respond(M, [ok |-> TRUE, time |-> Val(time)])

\* app.get("/stats"): res.json(stats)
getStats(M) == Respond(M, M.st)

\* an /admin/status that counts itself as a request served from the Snapshot
adminStatusCounted(M) ==
  Respond([M EXCEPT !.st.totalRequests = @ + 1, !.st.cacheHits = @ + 1],
          [lastUpdated |-> M.S.lastUpdated,
           lastReason |-> M.S.lastReason,
           counts |-> [profile |-> LengthOrZero(M.S.profile),
                       performance |-> LengthOrZero(M.S.performance),
                       joined |-> CountOrZero(M.S.joinedMatched)],
           stats |-> M.st,
           snapshotFile |-> snapshotFileInfo(M)])

\* app.get("/admin/status")
adminStatus(M) ==
  Respond(M, [lastUpdated |-> M.S.lastUpdated,
              lastReason |-> M.S.lastReason,
              counts |-> [profile |-> LengthOrZero(M.S.profile),
                          performance |-> LengthOrZero(M.S.performance),
                          joined |-> CountOrZero(M.S.joinedMatched)],
              stats |-> M.st,
              snapshotFile |-> snapshotFileInfo(M)])

\* GET /health
Health(r) ==
  /\ Arrives(r)
  /\ Received(r, getHealth(Begin(r, "health"), now))

\* GET /stats
Stats(r) ==
  /\ Arrives(r)
  /\ Received(r, getStats(Begin(r, "stats")))

\* GET /admin/status
AdminStatus(r) ==
  /\ Arrives(r)
  /\ Received(r, adminStatus(Begin(r, "status")))

\* a service account is configured and the sheet holds content 1
InitStatus ==
  /\ InitWith(MaxStatusReq)
  /\ config = "service"
  /\ sheet = 1

NextStatus ==
  \/ Startup
  \/ \E r \in Reqs : Health(r)
  \/ \E r \in Reqs : Stats(r)
  \/ \E r \in Reqs : AdminStatus(r)
  \/ \E r \in Reqs : ApiProfile(r)
  \/ \E r \in Reqs : ApiSchoolsOuter(r, Val(<<"f","a","l","s","e">>))
  \/ \E r \in Reqs, disk \in DiskOutcomes : AdminSave(r, disk)
  \/ \E r \in Reqs : AdminLoad(r)
  \/ \E r \in Procs, ok \in BOOLEAN : ProfileAuthorized(r, ok)
  \/ \E r \in Procs, ok \in BOOLEAN : ProfileFetched(r, ok, ProfileValues(sheet))
  \/ \E r \in Procs, ok \in BOOLEAN : PerformanceAuthorized(r, ok)
  \/ \E r \in Procs, ok \in BOOLEAN : PerformanceHeadersFetched(r, ok, PerfHeaderValues(sheet))
  \/ \E r \in Procs, ok \in BOOLEAN : PerformanceDataFetched(r, ok, PerfDataValues(sheet))
  \/ \E r \in Procs, ok \in BOOLEAN : RefreshAuthorized(r, ok)
  \/ \E r \in Procs, ok \in BOOLEAN : RefreshProfileFetched(r, ok)
  \/ \E r \in Procs, ok \in BOOLEAN : RefreshHeadersFetched(r, ok)
  \/ \E r \in Procs, ok \in BOOLEAN, disk \in DiskOutcomes : RefreshDataFetched(r, ok, disk)
  \/ \E r \in Reqs : Answered(r)

SpecStatus == InitStatus /\ [][NextStatus]_vars

\* the answer of request r is being written and says ok: true
AnsweredOk(r) == req[r].resp # NULL /\ req[r].resp.body.ok

\* POST /admin/load has restored the saved counters after a dataset read
\* counted itself
LoadAfterACountedRead ==
  \E r1, r2 \in Reqs :
    /\ r1 < r2
    /\ req[r1].kind \in {"profile", "schoolsOuter"}
    /\ req[r2].kind = "load"
    /\ AnsweredOk(r2)

\* request r is received in this step by a route of kinds
ReceivedBy(r, kinds) == req[r].kind = "none" /\ req'[r].kind \in kinds

\* this step leaves every field of the Snapshot and the snapshot file alone
SnapshotAndFileUnchanged == SNAPSHOT' = SNAPSHOT /\ file' = file

\* this step leaves the five counters alone
CountersUnchanged ==
  /\ stats'.totalRequests = stats.totalRequests
  /\ stats'.cacheHits = stats.cacheHits
  /\ stats'.cacheMisses = stats.cacheMisses
  /\ stats'.apiCalls = stats.apiCalls
  /\ stats'.errors = stats.errors

\* C37: GET /health, GET /stats and GET /admin/status, and GET
\* /api/schools?onlyMatched=false on a fully populated Snapshot, leave every
\* Snapshot field and the snapshot file unchanged; /health, /stats and
\* /admin/status also leave every counter unchanged.
ReadOnlyRoutesChangeNothing ==
  [][\A r \in Reqs :
       /\ ReceivedBy(r, {"health", "stats", "status"})
            => (SnapshotAndFileUnchanged /\ CountersUnchanged)
       /\ (ReceivedBy(r, {"schoolsOuter"}) /\ SnapshotFull)
            => SnapshotAndFileUnchanged]_vars

\* /admin/status is being answered after an outer join that was served from
\* a fully populated Snapshot and counted its two accessor calls
StatusAfterOuterJoinOnFullSnapshot ==
  \E r1, r2 \in Reqs :
    /\ r1 < r2
    /\ req[r1].kind = "schoolsOuter"
    /\ req[r1].calls = 0
    /\ req[r2].kind = "status"
    /\ req[r2].resp # NULL
    /\ req[r2].resp.body.stats.totalRequests = 2
    /\ req[r2].resp.body.counts.joined > 0
    /\ SnapshotFull
====
